---- MODULE Spec2Model ----
(***************************************************************************)
(* Model of the adaptive rate-limit recommender                            *)
(* (src/services/AI-RPS-limiter/main.py): the time-series buffer, the      *)
(* forecaster, the validator and coercer, the recommendation policy with   *)
(* its hysteresis state, and the HTTP decision path with its invalid-config*)
(* and malformed-body branches.                                            *)
(*                                                                         *)
(* Numbers.  Python floats are modelled as exact rationals <<n, d>> with   *)
(* d > 0 in lowest terms, so that equality of values is equality of pairs. *)
(* Integers are the rationals <<n, 1>>.  An Optional[X] is <<>> (None) or  *)
(* <<x>>.  Datetimes are integers counting microseconds.                   *)
(***************************************************************************)
EXTENDS Integers, Sequences, FiniteSets, TLC

VARIABLES
    env,        \* the configuration record read from the environment at import
    clock,      \* the server wall clock, in microseconds
    points,     \* collector._points: the deque of TimePoint
    state,      \* the RecommendationState instance
    metrics,    \* the Prometheus counters and gauges
    pc,         \* per worker: position in the handler
    req,        \* per worker: the request (path and JSON body)
    loc,        \* per worker: the handler's local variables
    out,        \* per worker: the HTTP reply (status, body, result label)
    started,    \* number of requests received so far
    fn          \* argument/result cell of the pure-function specifications

vars == <<env, clock, points, state, metrics, pc, req, loc, out, started, fn>>

---------------------------------------------------------------------------
(* Optional values *)

NONE == <<>>
Some(x) == <<x>>
IsNone(o) == o = <<>>
IsSome(o) == o # <<>>
Get(o) == o[1]

---------------------------------------------------------------------------
(* Exact rational arithmetic standing for float arithmetic *)

RECURSIVE Gcd(_, _)
Gcd(a, b) == IF b = 0 THEN a ELSE Gcd(b, a % b)

IAbs(i) == IF i < 0 THEN -i ELSE i

R(n, d) ==
    LET s == IF d < 0 THEN -1 ELSE 1
        g == Gcd(IAbs(n), IAbs(d))
    IN  <<(s * n) \div g, (s * d) \div g>>

I(n) == <<n, 1>>

RAdd(a, b) == R(a[1] * b[2] + b[1] * a[2], a[2] * b[2])
RSub(a, b) == R(a[1] * b[2] - b[1] * a[2], a[2] * b[2])
RMul(a, b) == R(a[1] * b[1], a[2] * b[2])
RDiv(a, b) == R(a[1] * b[2], a[2] * b[1])
RLt(a, b) == a[1] * b[2] < b[1] * a[2]
RLe(a, b) == a[1] * b[2] <= b[1] * a[2]
RGt(a, b) == RLt(b, a)
RGe(a, b) == RLe(b, a)
RMax(a, b) == IF RLt(a, b) THEN b ELSE a
RMin(a, b) == IF RLt(b, a) THEN b ELSE a
RAbs(a) == <<IAbs(a[1]), a[2]>>

\* math.floor and math.ceil; \div rounds toward minus infinity
Floor(a) == a[1] \div a[2]
Ceil(a) == -((-a[1]) \div a[2])
\* int(x): truncation toward zero
Trunc(a) == IF a[1] >= 0 THEN Floor(a) ELSE Ceil(a)

\* round(x, 3): to the nearest thousandth, ties to even
Round3(a) ==
    LET n == a[1] * 1000
        q == n \div a[2]
        r == n % a[2]
        up == \/ 2 * r > a[2]
              \/ 2 * r = a[2] /\ q % 2 = 1
    IN  R(IF up THEN q + 1 ELSE q, 1000)

---------------------------------------------------------------------------
(* Configuration: the module-level constants read from the environment *)

DefaultEnv ==
    [ HISTORY_WINDOW_SECONDS |-> 3600,
      MAX_HISTORY_POINTS |-> 5000,
      MIN_HISTORY_POINTS |-> 10,
      FORECAST_SECONDS |-> 60,
      FALLBACK_WINDOW_POINTS |-> 5,
      MIN_CHANGE_INTERVAL_SECONDS |-> 30,
      MIN_RELATIVE_CHANGE |-> R(1, 10),
      INCREASE_THRESHOLD |-> R(1, 10),
      DECREASE_THRESHOLD |-> R(2, 10),
      INCREASE_HEADROOM |-> R(5, 100),
      DECREASE_FACTOR |-> R(7, 10),
      MIN_RPS |-> I(1),
      MAX_RPS |-> I(10000),
      REJECTED_RATE_THRESHOLD |-> R(1, 10),
      LATENCY_P95_THRESHOLD |-> I(1),
      ERRORS_5XX_THRESHOLD |-> 1,
      DDOS_MULTIPLIER |-> I(2),
      DEFAULT_WINDOW_SECONDS |-> 60,
      TOKEN_CAPACITY_SECONDS |-> I(2),
      MAX_CAPACITY |-> 0,
      ALLOW_ALGO_SWITCH |-> FALSE,
      MIN_ALGO_SWITCH_INTERVAL_SECONDS |-> 300,
      BURSTINESS_THRESHOLD |-> R(3, 2),
      BURSTINESS_POINTS |-> 10,
      PROPHET_AVAILABLE |-> FALSE,
      ALGORITHM_ORDER |-> <<"fixed", "sliding", "token">> ]

HISTORY_WINDOW_SECONDS == env.HISTORY_WINDOW_SECONDS
MAX_HISTORY_POINTS == env.MAX_HISTORY_POINTS
MIN_HISTORY_POINTS == env.MIN_HISTORY_POINTS
FORECAST_SECONDS == env.FORECAST_SECONDS
FALLBACK_WINDOW_POINTS == env.FALLBACK_WINDOW_POINTS
MIN_CHANGE_INTERVAL_SECONDS == env.MIN_CHANGE_INTERVAL_SECONDS
MIN_RELATIVE_CHANGE == env.MIN_RELATIVE_CHANGE
INCREASE_THRESHOLD == env.INCREASE_THRESHOLD
DECREASE_THRESHOLD == env.DECREASE_THRESHOLD
INCREASE_HEADROOM == env.INCREASE_HEADROOM
DECREASE_FACTOR == env.DECREASE_FACTOR
MIN_RPS == env.MIN_RPS
MAX_RPS == env.MAX_RPS
REJECTED_RATE_THRESHOLD == env.REJECTED_RATE_THRESHOLD
LATENCY_P95_THRESHOLD == env.LATENCY_P95_THRESHOLD
ERRORS_5XX_THRESHOLD == env.ERRORS_5XX_THRESHOLD
DDOS_MULTIPLIER == env.DDOS_MULTIPLIER
DEFAULT_WINDOW_SECONDS == env.DEFAULT_WINDOW_SECONDS
TOKEN_CAPACITY_SECONDS == env.TOKEN_CAPACITY_SECONDS
MAX_CAPACITY == env.MAX_CAPACITY
ALLOW_ALGO_SWITCH == env.ALLOW_ALGO_SWITCH
MIN_ALGO_SWITCH_INTERVAL_SECONDS == env.MIN_ALGO_SWITCH_INTERVAL_SECONDS
BURSTINESS_THRESHOLD == env.BURSTINESS_THRESHOLD
BURSTINESS_POINTS == env.BURSTINESS_POINTS
PROPHET_AVAILABLE == env.PROPHET_AVAILABLE

ALLOWED_ALGORITHMS == {"fixed", "sliding", "token"}

\* The order in which this process iterates over the set ALLOWED_ALGORITHMS
ALGORITHM_ORDER == env.ALGORITHM_ORDER

\* timedelta(seconds=1) in units of timedelta(microseconds=1)
MicrosPerSecond == 1000000

Seconds(s) == s * MicrosPerSecond

\* Comparisons of a timedelta (in microseconds) with a number of seconds,
\* written so that no product leaves the machine integers:
\* delta < timedelta(seconds=s), and delta > timedelta(seconds=s)
TdLt(delta, s) == delta \div MicrosPerSecond < s
TdGt(delta, s) ==
    \/ delta \div MicrosPerSecond > s
    \/ delta \div MicrosPerSecond = s /\ delta % MicrosPerSecond > 0

\* max_rps = MAX_RPS if MAX_RPS > 0 else None
max_rps == IF RGt(MAX_RPS, I(0)) THEN Some(MAX_RPS) ELSE NONE

IMax(a, b) == IF a < b THEN b ELSE a
IMin(a, b) == IF b < a THEN b ELSE a

---------------------------------------------------------------------------
(* Request schema (pydantic models) *)

\* LimitConfigIn._normalize_algorithm
_normalize_algorithm(value) ==
    IF value \in {"token_bucket", "tokenbucket"} THEN "token" ELSE value

\* A raw JSON currentConfig object: every field <<>> (absent or null) or <<v>>.
RawConfig(a, l, w, c, f) ==
    [algorithm |-> a, limit |-> l, window |-> w, capacity |-> c, fillRate |-> f]

IsInt(r) == r[2] = 1

\* LimitConfigIn(**raw) succeeds: algorithm required, limit >= 0, window an
\* integer > 0, capacity an integer >= 0, fillRate >= 0.
LimitConfigIn_ok(raw) ==
    /\ IsSome(raw.algorithm)
    /\ IsSome(raw.limit) => RGe(Get(raw.limit), I(0))
    /\ IsSome(raw.window) => IsInt(Get(raw.window)) /\ RGt(Get(raw.window), I(0))
    /\ IsSome(raw.capacity) => IsInt(Get(raw.capacity)) /\ RGe(Get(raw.capacity), I(0))
    /\ IsSome(raw.fillRate) => RGe(Get(raw.fillRate), I(0))

\* The LimitConfigIn instance built from a raw object that passes the schema.
LimitConfigIn(raw) ==
    [ algorithm |-> _normalize_algorithm(Get(raw.algorithm)),
      limit |-> raw.limit,
      window |-> raw.window,
      capacity |-> raw.capacity,
      fillRate |-> raw.fillRate ]

\* LimitConfigRequest(**body) succeeds; body is <<>> when the JSON does not
\* parse into an object.
LimitConfigRequest_ok(body) ==
    /\ IsSome(body)
    /\ LET b == Get(body) IN
        /\ IsSome(b.observedRps) /\ RGe(Get(b.observedRps), I(0))
        /\ IsSome(b.rejectedRate) =>
                RGe(Get(b.rejectedRate), I(0)) /\ RLe(Get(b.rejectedRate), I(1))
        /\ IsSome(b.latencyP95) => RGe(Get(b.latencyP95), I(0))
        /\ IsSome(b.errors5xx) => Get(b.errors5xx) >= 0
        /\ IsSome(b.currentConfig)
        /\ LimitConfigIn_ok(Get(b.currentConfig))

\* The LimitConfigRequest instance of a body that passes the schema.
LimitConfigRequest(body) ==
    [ timestamp |-> Get(body).timestamp,
      observedRps |-> Get(Get(body).observedRps),
      rejectedRate |-> Get(body).rejectedRate,
      latencyP95 |-> Get(body).latencyP95,
      errors5xx |-> Get(body).errors5xx,
      currentConfig |-> LimitConfigIn(Get(Get(body).currentConfig)) ]

\* A LimitConfigResponse; integer fields are rationals with denominator 1.
LimitConfigResponse(a, l, w, c, f, p, v) ==
    [ algorithm |-> a, limit |-> l, window |-> w, capacity |-> c,
      fillRate |-> f, predictedRps |-> p, validFor |-> v ]

\* A response body read back as the currentConfig of a request.
AsIncomingConfig(r) ==
    [ algorithm |-> r.algorithm, limit |-> r.limit, window |-> r.window,
      capacity |-> r.capacity, fillRate |-> r.fillRate ]

---------------------------------------------------------------------------
(* Validator and coercer *)

clamp(value, minimum, maximum) ==
    IF IsNone(maximum) THEN RMax(minimum, value)
    ELSE RMax(minimum, RMin(value, Get(maximum)))

\* <<>> when the config is valid, else <<message>>
validate_current_config(config) ==
    IF config.algorithm \notin ALLOWED_ALGORITHMS
        THEN Some("Unsupported algorithm")
    ELSE IF /\ config.algorithm \in {"fixed", "sliding"}
            /\ (IsNone(config.limit) \/ IsNone(config.window))
        THEN Some("limit and window are required for fixed/sliding")
    ELSE IF /\ config.algorithm \in {"fixed", "sliding"}
            /\ (RLe(Get(config.limit), I(0)) \/ RLe(Get(config.window), I(0)))
        THEN Some("limit/window must be positive")
    ELSE IF /\ config.algorithm = "token"
            /\ (IsNone(config.capacity) \/ IsNone(config.fillRate))
        THEN Some("capacity and fillRate are required for token")
    ELSE IF /\ config.algorithm = "token"
            /\ (RLe(Get(config.capacity), I(0)) \/ RLe(Get(config.fillRate), I(0)))
        THEN Some("capacity/fillRate must be positive")
    ELSE NONE

OptInt(o) == IF IsSome(o) THEN Some(I(Trunc(Get(o)))) ELSE NONE

\* keep_current_response, leaving validFor out
keep_current_response_without_validity(config, predicted_rps) ==
    LimitConfigResponse(
        config.algorithm,
        OptInt(config.limit),
        OptInt(config.window),
        OptInt(config.capacity),
        config.fillRate,
        predicted_rps,
        NONE)

keep_current_response(config, predicted_rps) ==
    LimitConfigResponse(
        config.algorithm,
        OptInt(config.limit),
        OptInt(config.window),
        OptInt(config.capacity),
        config.fillRate,
        predicted_rps,
        Some(FORECAST_SECONDS))

\* payload: <<>> when the body is no JSON object, else <<dict>>;
\* fallback: <<>> or <<LimitConfigIn>>.  Returns <<>> or <<LimitConfigIn>>.
coerce_current_config(payload, fallback) ==
    IF IsNone(payload) THEN fallback
    ELSE IF IsNone(Get(payload).currentConfig) THEN fallback
    ELSE
        LET raw_config == Get(Get(payload).currentConfig)
            base == IF IsSome(fallback)
                    THEN [Get(fallback) EXCEPT !.algorithm = Some(@)]
                    ELSE RawConfig(NONE, NONE, NONE, NONE, NONE)
            Pick(new, old) == IF IsSome(new) THEN new ELSE old
            merged == RawConfig(
                Pick(raw_config.algorithm, base.algorithm),
                Pick(raw_config.limit, base.limit),
                Pick(raw_config.window, base.window),
                Pick(raw_config.capacity, base.capacity),
                Pick(raw_config.fillRate, base.fillRate))
        IN  IF merged = RawConfig(NONE, NONE, NONE, NONE, NONE) THEN fallback
            ELSE IF ~LimitConfigIn_ok(merged) THEN fallback
            ELSE IF IsSome(validate_current_config(LimitConfigIn(merged)))
                THEN fallback
            ELSE Some(LimitConfigIn(merged))

\* default_fallback_config, capping the limit by MAX_RPS without widening the
\* window
default_fallback_config_capped_by_max ==
    LET window == IMax(1, DEFAULT_WINDOW_SECONDS)
        limit0 == IMax(1, Ceil(RMul(MIN_RPS, I(window))))
        limit == IF IsNone(max_rps) THEN limit0
                 ELSE IMin(limit0, Floor(RMul(Get(max_rps), I(window))))
    IN  [algorithm |-> "fixed", limit |-> Some(I(limit)),
         window |-> Some(I(window)), capacity |-> NONE, fillRate |-> NONE]

default_fallback_config ==
    LET window0 == IMax(1, DEFAULT_WINDOW_SECONDS)
        limit0 == IMax(1, Ceil(RMul(MIN_RPS, I(window0))))
    IN  IF IsNone(max_rps)
        THEN [algorithm |-> "fixed", limit |-> Some(I(limit0)),
              window |-> Some(I(window0)), capacity |-> NONE, fillRate |-> NONE]
        ELSE
            LET m == Get(max_rps)
                max_limit0 == Floor(RMul(m, I(window0)))
                window == IF max_limit0 < 1
                          THEN IMax(window0, Ceil(RDiv(I(1), m)))
                          ELSE window0
                max_limit == Floor(RMul(m, I(window)))
                limit1 == IF max_limit >= 1 THEN IMin(limit0, max_limit) ELSE limit0
                limit == IMax(1, limit1)
            IN  [algorithm |-> "fixed", limit |-> Some(I(limit)),
                 window |-> Some(I(window)), capacity |-> NONE, fillRate |-> NONE]

---------------------------------------------------------------------------
(* Time-series buffer: DataCollector *)

TimePoint(ts, rps) == [ts |-> ts, rps |-> rps]

Last(seq) == seq[Len(seq)]

\* DataCollector.__init__: self._window_seconds, self._max_points
_window_seconds == IMax(1, HISTORY_WINDOW_SECONDS)
_max_points == IMax(2, MAX_HISTORY_POINTS)

\* DropOlder, with the cutoff taken one window too far back
RECURSIVE DropOlder_twice_window(_, _)
DropOlder_twice_window(pts, tail_ts) ==
    IF pts # <<>> /\ TdGt(tail_ts - pts[1].ts, 2 * _window_seconds)
    THEN DropOlder_twice_window(Tail(pts), tail_ts) ELSE pts

\* while self._points and self._points[0].ts < cutoff: popleft(), where
\* cutoff = tail_ts - timedelta(seconds=self._window_seconds)
RECURSIVE DropOlder(_, _)
DropOlder(pts, tail_ts) ==
    IF pts # <<>> /\ TdGt(tail_ts - pts[1].ts, _window_seconds)
    THEN DropOlder(Tail(pts), tail_ts) ELSE pts

\* DropExcess, stopping one element early
RECURSIVE DropExcess_one_late(_, _)
DropExcess_one_late(pts, n) ==
    IF Len(pts) > n + 1 THEN DropExcess_one_late(Tail(pts), n) ELSE pts

RECURSIVE DropExcess(_, _)
DropExcess(pts, n) ==
    IF Len(pts) > n THEN DropExcess(Tail(pts), n) ELSE pts

\* DropExcess, discarding from the newest end
RECURSIVE DropExcess_newest_first(_, _)
DropExcess_newest_first(pts, n) ==
    IF Len(pts) > n THEN DropExcess_newest_first(SubSeq(pts, 1, Len(pts) - 1), n) ELSE pts

\* _trim, popping the samples over the count from the right
_trim_from_the_right(pts) ==
    IF pts = <<>> THEN pts
    ELSE DropExcess_newest_first(DropOlder(pts, Last(pts).ts), _max_points)

\* DataCollector._trim
_trim(pts) ==
    IF pts = <<>> THEN pts
    ELSE DropExcess(DropOlder(pts, Last(pts).ts), _max_points)

\* add_point, comparing with < where the code compares with <=
add_point_strict_less(pts, ts, rps) ==
    LET ts1 == IF pts # <<>> /\ ts < Last(pts).ts THEN Last(pts).ts + 1 ELSE ts
    IN  _trim(Append(pts, TimePoint(ts1, rps)))

\* add_point, placing a sample that is not newer than the tail before the
\* samples held instead of after them
add_point_by_timestamp(pts, ts, rps) ==
    IF pts # <<>> /\ ts <= Last(pts).ts
    THEN _trim(<<TimePoint(ts, rps)>> \o pts)
    ELSE _trim(Append(pts, TimePoint(ts, rps)))

\* DataCollector.add_point: the body run while holding self._lock
add_point(pts, ts, rps) ==
    LET ts1 == IF pts # <<>> /\ ts <= Last(pts).ts THEN Last(pts).ts + 1 ELSE ts
    IN  _trim(Append(pts, TimePoint(ts1, rps)))

\* DataCollector.snapshot: a copy of the deque
snapshot(pts) == pts

---------------------------------------------------------------------------
(* Forecaster *)

\* Forecaster.__init__: self._horizon_seconds, self._min_points
_horizon_seconds == IMax(1, FORECAST_SECONDS)
_min_points == IMax(2, MIN_HISTORY_POINTS)

\* points[-n:] for n >= 1
LastN(seq, n) ==
    IF Len(seq) <= n THEN seq ELSE SubSeq(seq, Len(seq) - n + 1, Len(seq))

\* fallback_forecast, with the slope taken from the oldest point of the history
\* where the code takes it from the oldest point of the window
fallback_forecast_from_oldest(pts, horizon_seconds) ==
    IF pts = <<>> THEN I(0)
    ELSE
        LET window == LastN(pts, IMax(1, IMin(Len(pts), FALLBACK_WINDOW_POINTS)))
            start == pts[1]
            end == Last(window)
            total_seconds == R(end.ts - start.ts, MicrosPerSecond)
        IN  IF Len(window) = 1 THEN end.rps
            ELSE IF RLe(total_seconds, I(0)) THEN end.rps
            ELSE LET slope == RDiv(RSub(end.rps, start.rps), total_seconds)
                 IN  RMax(I(0), RAdd(end.rps, RMul(slope, I(horizon_seconds))))

\* fallback_forecast(points, horizon_seconds)
fallback_forecast(pts, horizon_seconds) ==
    IF pts = <<>> THEN I(0)
    ELSE
        LET window == LastN(pts, IMax(1, IMin(Len(pts), FALLBACK_WINDOW_POINTS)))
            start == window[1]
            end == Last(window)
            total_seconds == R(end.ts - start.ts, MicrosPerSecond)
        IN  IF Len(window) = 1 THEN end.rps
            ELSE IF RLe(total_seconds, I(0)) THEN end.rps
            ELSE LET slope == RDiv(RSub(end.rps, start.rps), total_seconds)
                 IN  RMax(I(0), RAdd(end.rps, RMul(slope, I(horizon_seconds))))

\* What the Prophet fit-and-predict of one call does: it raises, or yields yhat.
ProphetRaises == [raised |-> TRUE, yhat |-> I(0)]
ProphetYields(y) == [raised |-> FALSE, yhat |-> y]

\* Forecaster.forecast, returning yhat as the model gives it
forecast_unclamped(pts, prophet) ==
    IF pts = <<>> THEN NONE
    ELSE IF PROPHET_AVAILABLE /\ Len(pts) >= _min_points /\ ~prophet.raised
        THEN Some(prophet.yhat)
    ELSE Some(fallback_forecast(pts, _horizon_seconds))

\* Forecaster.forecast; prophet is the outcome of the model path, consulted
\* only when the model path is taken.  Returns <<>> (None) or <<value>>.
forecast(pts, prophet) ==
    IF pts = <<>> THEN NONE
    ELSE IF PROPHET_AVAILABLE /\ Len(pts) >= _min_points /\ ~prophet.raised
        THEN Some(RMax(I(0), prophet.yhat))
    ELSE Some(fallback_forecast(pts, _horizon_seconds))

---------------------------------------------------------------------------
(* Timestamp parsing *)

\* A JSON timestamp value, by what parse_timestamp does with it:
\*   absent      missing or null                      -> wall clock
\*   iso         ISO-8601 string denoting at          -> at
\*   num         number, a representable Unix time    -> at
\*   num_range   number no datetime can hold (1e12, 1e20, NaN): fromtimestamp
\*               raises ValueError or OverflowError outside any try
\*   numstr      numeric string, representable        -> at
\*   numstr_year numeric string such as "1e12": ValueError, caught -> wall clock
\*   numstr_over numeric string such as "1e20": OverflowError, not caught
\*   garbage     any other string: ValueError, caught -> wall clock
Timestamp(kind, at) == [kind |-> kind, at |-> at]

\* [raised |-> an exception leaves the function, ts |-> the datetime returned]
parse_timestamp(value, wall) ==
    CASE value.kind = "absent" -> [raised |-> FALSE, ts |-> wall]
      [] value.kind = "num" -> [raised |-> FALSE, ts |-> value.at]
      [] value.kind = "num_range" -> [raised |-> TRUE, ts |-> wall]
      [] value.kind = "iso" -> [raised |-> FALSE, ts |-> value.at]
      [] value.kind = "numstr" -> [raised |-> FALSE, ts |-> value.at]
      [] value.kind = "numstr_year" -> [raised |-> FALSE, ts |-> wall]
      [] value.kind = "numstr_over" -> [raised |-> TRUE, ts |-> wall]
      [] OTHER -> [raised |-> FALSE, ts |-> wall]

---------------------------------------------------------------------------
(* Recommendation policy *)

current_rps_limit(config) ==
    IF config.algorithm \in {"fixed", "sliding"}
    THEN RDiv(Get(config.limit), Get(config.window))
    ELSE Get(config.fillRate)

RECURSIVE SumRps(_)
SumRps(sample) ==
    IF sample = <<>> THEN I(0) ELSE RAdd(sample[1].rps, SumRps(Tail(sample)))

RECURSIVE MaxOfRps(_)
MaxOfRps(sample) ==
    IF Len(sample) = 1 THEN sample[1].rps
    ELSE RMax(sample[1].rps, MaxOfRps(Tail(sample)))

is_bursty(pts) ==
    IF Len(pts) < IMax(2, BURSTINESS_POINTS) THEN FALSE
    ELSE
        LET sample == IF BURSTINESS_POINTS >= 1 THEN LastN(pts, BURSTINESS_POINTS)
                      ELSE pts
            mean == RDiv(SumRps(sample), I(Len(sample)))
        IN  IF RLe(mean, I(0)) THEN FALSE
            ELSE RGe(RDiv(MaxOfRps(sample), mean), BURSTINESS_THRESHOLD)

\* build_response, without the floor of MIN_RPS under the limit and the fill
\* rate
build_response_without_floor(algorithm, target_rps, current_config, predicted_rps) ==
    IF algorithm \in {"fixed", "sliding"}
    THEN
        LET window == IF IsSome(current_config.window)
                         /\ Get(current_config.window) # I(0)
                      THEN Trunc(Get(current_config.window))
                      ELSE DEFAULT_WINDOW_SECONDS
            limit1 == Ceil(RMul(target_rps, I(window)))
            limit == IF IsSome(max_rps)
                     THEN IMin(limit1, Floor(RMul(Get(max_rps), I(window))))
                     ELSE limit1
        IN  LimitConfigResponse(algorithm, Some(I(limit)), Some(I(window)),
                                NONE, NONE, predicted_rps, Some(FORECAST_SECONDS))
    ELSE
        LET fill_rate == IF IsSome(max_rps) THEN RMin(target_rps, Get(max_rps))
                         ELSE target_rps
            capacity2 == Ceil(RMul(fill_rate, TOKEN_CAPACITY_SECONDS))
            capacity == IF MAX_CAPACITY > 0 THEN IMin(capacity2, MAX_CAPACITY)
                        ELSE capacity2
        IN  LimitConfigResponse(algorithm, NONE, NONE, Some(I(capacity)),
                                Some(Round3(fill_rate)), predicted_rps,
                                Some(FORECAST_SECONDS))

build_response(algorithm, target_rps, current_config, predicted_rps) ==
    IF algorithm \in {"fixed", "sliding"}
    THEN
        LET window == IF IsSome(current_config.window)
                         /\ Get(current_config.window) # I(0)
                      THEN Trunc(Get(current_config.window))
                      ELSE DEFAULT_WINDOW_SECONDS
            limit0 == Ceil(RMul(target_rps, I(window)))
            min_limit == Ceil(RMul(MIN_RPS, I(window)))
            limit1 == IMax(limit0, min_limit)
            limit == IF IsSome(max_rps)
                     THEN IMin(limit1, Floor(RMul(Get(max_rps), I(window))))
                     ELSE limit1
        IN  LimitConfigResponse(algorithm, Some(I(limit)), Some(I(window)),
                                NONE, NONE, predicted_rps, Some(FORECAST_SECONDS))
    ELSE
        LET fill_rate == clamp(target_rps, MIN_RPS, max_rps)
            capacity0 == Ceil(RMul(fill_rate, TOKEN_CAPACITY_SECONDS))
            capacity1 == IMax(capacity0, Ceil(RMul(MIN_RPS, TOKEN_CAPACITY_SECONDS)))
            capacity2 == IF RLt(I(capacity1), fill_rate) THEN Ceil(fill_rate)
                         ELSE capacity1
            capacity == IF MAX_CAPACITY > 0 THEN IMin(capacity2, MAX_CAPACITY)
                        ELSE capacity2
        IN  LimitConfigResponse(algorithm, NONE, NONE, Some(I(capacity)),
                                Some(Round3(fill_rate)), predicted_rps,
                                Some(FORECAST_SECONDS))

\* abs(a - b) < 1e-6
Within1e6(a, b) == RLt(RAbs(RSub(a, b)), R(1, 1000000))

configs_equal(current, recommended) ==
    IF current.algorithm # recommended.algorithm THEN FALSE
    ELSE IF current.algorithm \in {"fixed", "sliding"}
        THEN /\ Some(I(Trunc(Get(current.limit)))) = recommended.limit
             /\ Some(I(Trunc(Get(current.window)))) = recommended.window
    ELSE /\ Some(I(Trunc(Get(current.capacity)))) = recommended.capacity
         /\ IsSome(recommended.fillRate)
         /\ Within1e6(Get(current.fillRate), Get(recommended.fillRate))

\* recommend_config, the overload flag
overload(request) ==
    \/ IsSome(request.rejectedRate)
        /\ RGe(Get(request.rejectedRate), REJECTED_RATE_THRESHOLD)
    \/ IsSome(request.latencyP95)
        /\ RGe(Get(request.latencyP95), LATENCY_P95_THRESHOLD)
    \/ IsSome(request.errors5xx)
        /\ Get(request.errors5xx) >= ERRORS_5XX_THRESHOLD

\* target_rps, trying the increase rule before the overload-or-spike rule
target_rps_increase_first(request, predicted_rps) ==
    LET current_limit == current_rps_limit(request.currentConfig)
        spike == RGe(predicted_rps, RMul(current_limit, DDOS_MULTIPLIER))
        t == IF RGt(predicted_rps,
                    RMul(current_limit, RAdd(I(1), INCREASE_THRESHOLD)))
                THEN RMul(predicted_rps, RAdd(I(1), INCREASE_HEADROOM))
             ELSE IF overload(request) \/ spike
                THEN RMul(current_limit, DECREASE_FACTOR)
             ELSE IF RLt(predicted_rps,
                         RMul(current_limit, RSub(I(1), DECREASE_THRESHOLD)))
                THEN predicted_rps
             ELSE current_limit
    IN  clamp(t, MIN_RPS, max_rps)

\* target_rps, decreasing for a spike but not for an overload signal
target_rps_spike_only(request, predicted_rps) ==
    LET current_limit == current_rps_limit(request.currentConfig)
        spike == RGe(predicted_rps, RMul(current_limit, DDOS_MULTIPLIER))
        t == IF spike
                THEN RMul(current_limit, DECREASE_FACTOR)
             ELSE IF RGt(predicted_rps,
                         RMul(current_limit, RAdd(I(1), INCREASE_THRESHOLD)))
                THEN RMul(predicted_rps, RAdd(I(1), INCREASE_HEADROOM))
             ELSE IF RLt(predicted_rps,
                         RMul(current_limit, RSub(I(1), DECREASE_THRESHOLD)))
                THEN predicted_rps
             ELSE current_limit
    IN  clamp(t, MIN_RPS, max_rps)

\* recommend_config, target_rps after the clamp; predicted_rps already clamped
target_rps(request, predicted_rps) ==
    LET current_limit == current_rps_limit(request.currentConfig)
        spike == RGe(predicted_rps, RMul(current_limit, DDOS_MULTIPLIER))
        t == IF overload(request) \/ spike
                THEN RMul(current_limit, DECREASE_FACTOR)
             ELSE IF RGt(predicted_rps,
                         RMul(current_limit, RAdd(I(1), INCREASE_THRESHOLD)))
                THEN RMul(predicted_rps, RAdd(I(1), INCREASE_HEADROOM))
             ELSE IF RLt(predicted_rps,
                         RMul(current_limit, RSub(I(1), DECREASE_THRESHOLD)))
                THEN predicted_rps
             ELSE current_limit
    IN  clamp(t, MIN_RPS, max_rps)

\* desired_algorithm, without the interval since the last switch
desired_algorithm_any_time(request, history_points, st, now) ==
    IF ALLOW_ALGO_SWITCH /\ is_bursty(history_points) THEN "token"
    ELSE IF ALLOW_ALGO_SWITCH /\ request.currentConfig.algorithm = "token"
        THEN "sliding"
    ELSE request.currentConfig.algorithm

\* desired_algorithm, switching whether or not ALLOW_ALGO_SWITCH is set
desired_algorithm_without_flag(request, history_points, st, now) ==
    LET algo_switch_allowed ==
            \/ IsNone(st.last_algo_switch_at)
            \/ ~TdLt(now - Get(st.last_algo_switch_at),
                     MIN_ALGO_SWITCH_INTERVAL_SECONDS)
    IN  IF algo_switch_allowed /\ is_bursty(history_points) THEN "token"
        ELSE IF algo_switch_allowed /\ request.currentConfig.algorithm = "token"
            THEN "sliding"
        ELSE request.currentConfig.algorithm

\* recommend_config, desired_algorithm
desired_algorithm(request, history_points, st, now) ==
    LET algo_switch_allowed ==
            /\ ALLOW_ALGO_SWITCH
            /\ \/ IsNone(st.last_algo_switch_at)
               \/ ~TdLt(now - Get(st.last_algo_switch_at),
                        MIN_ALGO_SWITCH_INTERVAL_SECONDS)
    IN  IF algo_switch_allowed /\ is_bursty(history_points) THEN "token"
        ELSE IF algo_switch_allowed /\ request.currentConfig.algorithm = "token"
            THEN "sliding"
        ELSE request.currentConfig.algorithm

\* recommend_config, change_ratio
change_ratio(request, target) ==
    LET current_limit == current_rps_limit(request.currentConfig)
    IN  IF RGt(current_limit, I(0))
        THEN RDiv(RAbs(RSub(target, current_limit)), current_limit)
        ELSE I(0)

\* recent_change_block, blocking only a now that is at or after lastChangeAt
recent_change_block_forward_only(st, now) ==
    /\ IsSome(st.last_change_at)
    /\ now >= Get(st.last_change_at)
    /\ TdLt(now - Get(st.last_change_at), MIN_CHANGE_INTERVAL_SECONDS)

\* recent_change_block, measuring the interval from the last algorithm switch
recent_change_block_since_switch(st, now) ==
    /\ IsSome(st.last_algo_switch_at)
    /\ TdLt(now - Get(st.last_algo_switch_at), MIN_CHANGE_INTERVAL_SECONDS)

\* recommend_config, recent_change_block
recent_change_block(st, now) ==
    /\ IsSome(st.last_change_at)
    /\ TdLt(now - Get(st.last_change_at), MIN_CHANGE_INTERVAL_SECONDS)

\* recommend_config, accepting a change of algorithm without recording it in
\* last_algo_switch_at
recommend_config_switch_unrecorded(request, predicted, history_points, st, now) ==
    LET current_config == request.currentConfig
        current_limit == current_rps_limit(current_config)
        predicted_rps == clamp(predicted, I(0), max_rps)
        target == target_rps(request, predicted_rps)
        desired == desired_algorithm(request, history_points, st, now)
        recommendation ==
            build_response(desired, target, current_config,
                           Some(Round3(predicted_rps)))
        rebuilt ==
            build_response(current_config.algorithm, current_limit,
                           current_config, Some(Round3(predicted_rps)))
    IN  IF configs_equal(current_config, recommendation)
            THEN [recommendation |-> recommendation, state |-> st,
                  branch |-> "equal"]
        ELSE IF /\ desired = current_config.algorithm
                /\ RLt(change_ratio(request, target), MIN_RELATIVE_CHANGE)
            THEN [recommendation |-> rebuilt, state |-> st, branch |-> "ratio"]
        ELSE IF recent_change_block(st, now)
            THEN [recommendation |-> rebuilt, state |-> st, branch |-> "recent"]
        ELSE [recommendation |-> recommendation,
              state |-> [st EXCEPT !.last_change_at = Some(now)],
              branch |-> "accepted"]

\* recommend_config: the recommendation returned and the state it leaves.
\* branch names the return statement taken.
recommend_config(request, predicted, history_points, st, now) ==
    LET current_config == request.currentConfig
        current_limit == current_rps_limit(current_config)
        predicted_rps == clamp(predicted, I(0), max_rps)
        target == target_rps(request, predicted_rps)
        desired == desired_algorithm(request, history_points, st, now)
        recommendation ==
            build_response(desired, target, current_config,
                           Some(Round3(predicted_rps)))
        rebuilt ==
            build_response(current_config.algorithm, current_limit,
                           current_config, Some(Round3(predicted_rps)))
    IN  IF configs_equal(current_config, recommendation)
            THEN [recommendation |-> recommendation, state |-> st,
                  branch |-> "equal"]
        ELSE IF /\ desired = current_config.algorithm
                /\ RLt(change_ratio(request, target), MIN_RELATIVE_CHANGE)
            THEN [recommendation |-> rebuilt, state |-> st, branch |-> "ratio"]
        ELSE IF recent_change_block(st, now)
            THEN [recommendation |-> rebuilt, state |-> st, branch |-> "recent"]
        ELSE [recommendation |-> recommendation,
              state |-> [st EXCEPT
                  !.last_change_at = Some(now),
                  !.last_algo_switch_at =
                      IF desired # current_config.algorithm THEN Some(now) ELSE @],
              branch |-> "accepted"]

---------------------------------------------------------------------------
(* Metrics *)

\* The counter family ai_limit_config_requests_total{result} and the gauge
\* family ai_last_algorithm{algorithm}; a label of the gauge family holds <<>>
\* until it is first set.  The scalar gauges are written by the same two
\* functions and read by nothing in the service; they are not part of the
\* model.
Metrics0 ==
    [ requests_total |-> [ok |-> 0, invalid_config |-> 0, validation_error |-> 0],
      last_algorithm |-> [a \in ALLOWED_ALGORITHMS |-> NONE] ]

update_algorithm_gauge(m, algorithm) ==
    IF algorithm \notin ALLOWED_ALGORITHMS THEN m
    ELSE [m EXCEPT !.last_algorithm =
            [a \in ALLOWED_ALGORITHMS |-> Some(IF a = algorithm THEN 1 ELSE 0)]]

update_metrics(m, recommendation, result) ==
    update_algorithm_gauge([m EXCEPT !.requests_total[result] = @ + 1],
                           recommendation.algorithm)

update_metrics_from_response(m, recommendation, result) ==
    update_algorithm_gauge([m EXCEPT !.requests_total[result] = @ + 1],
                           recommendation.algorithm)

\* recommendation_rps: <<>> (None) or the RPS a response stands for
recommendation_rps(recommendation) ==
    IF recommendation.algorithm \in {"fixed", "sliding"}
    THEN IF IsNone(recommendation.limit) \/ IsNone(recommendation.window)
            \/ recommendation.window = Some(I(0))
         THEN NONE
         ELSE Some(RDiv(Get(recommendation.limit), Get(recommendation.window)))
    ELSE IF recommendation.algorithm = "token" /\ IsSome(recommendation.fillRate)
        THEN recommendation.fillRate
    ELSE NONE

\* parse_optional_float of payload.get("observedRps") for a JSON number or null
parse_optional_float(value) == value

---------------------------------------------------------------------------
(* The service: module state and the request handlers *)

\* Requests received in one run, and the latest reading of the wall clock
MaxRequests == 2
MaxClockSeconds == 30
\* add_point calls in one run of the buffer specification
MaxAppends == 4

\* Two workers: requests overlap pairwise
Procs == {1, 2}

\* seconds by which the wall clock moves between two observations of it
ClockSteps == {30}

\* A JSON body object; every field <<>> (absent or null) or <<v>>, the
\* timestamp a Timestamp(...)
Body(ts, obs, rej, lat, err, cfg) ==
    [ timestamp |-> ts, observedRps |-> obs, rejectedRate |-> rej,
      latencyP95 |-> lat, errors5xx |-> err, currentConfig |-> cfg ]

State0 ==
    [ last_change_at |-> NONE,
      last_algo_switch_at |-> NONE,
      last_good_recommendation |-> NONE,
      last_good_config |-> NONE,
      last_predicted_rps |-> NONE ]

\* The locals of one handler invocation, before any is assigned
Loc0 ==
    [ received_at |-> NONE, sample_ts |-> NONE, request |-> NONE,
      history |-> <<>>, predicted |-> NONE, predicted_rps |-> NONE,
      recommendation |-> NONE, result |-> "", branch |-> "",
      payload |-> NONE, observed_rps |-> NONE, fallback_config |-> NONE,
      fallback_recommendation |-> NONE, last_predicted_rps |-> NONE,
      history_len |-> NONE ]

Out0 == [status |-> 0, body |-> NONE, result |-> ""]

InitWith(e) ==
    /\ env = e
    /\ clock = 0
    /\ points = <<>>
    /\ state = State0
    /\ metrics = Metrics0
    /\ pc = [p \in Procs |-> "idle"]
    /\ req = [p \in Procs |-> NONE]
    /\ loc = [p \in Procs |-> Loc0]
    /\ out = [p \in Procs |-> Out0]
    /\ started = 0
    /\ fn = NONE

\* The wall clock moves.
Tick ==
    /\ clock < Seconds(MaxClockSeconds)
    /\ \E s \in ClockSteps : clock' = clock + Seconds(s)
    /\ UNCHANGED <<env, points, state, metrics, pc, req, loc, out, started, fn>>

\* POST /v1/limit-config with a body that passes the schema: limit_config
\* starts, takes received_at and parses the timestamp.
ReceiveDecision(p, bodies) ==
    /\ pc[p] = "idle"
    /\ started < MaxRequests
    /\ \E body \in bodies :
        /\ LimitConfigRequest_ok(Some(body))
        /\ LET request == LimitConfigRequest(Some(body))
               parsed == parse_timestamp(request.timestamp, clock)
           IN  /\ req' = [req EXCEPT ![p] = Some(body)]
               /\ IF parsed.raised
                  THEN /\ pc' = [pc EXCEPT ![p] = "done"]
                       /\ loc' = [loc EXCEPT ![p] =
                                [Loc0 EXCEPT !.received_at = Some(clock),
                                             !.request = Some(request)]]
                       /\ out' = [out EXCEPT ![p] =
                                [status |-> 500, body |-> NONE, result |-> ""]]
                  ELSE /\ pc' = [pc EXCEPT ![p] = "add_point"]
                       /\ loc' = [loc EXCEPT ![p] =
                                [Loc0 EXCEPT !.received_at = Some(clock),
                                             !.sample_ts = Some(parsed.ts),
                                             !.request = Some(request)]]
                       /\ out' = out
    /\ started' = started + 1
    /\ UNCHANGED <<env, clock, points, state, metrics, fn>>

\* collector.add_point(sample_ts, request.observedRps)
AddPoint(p) ==
    /\ pc[p] = "add_point"
    /\ points' = add_point(points, Get(loc[p].sample_ts),
                           Get(loc[p].request).observedRps)
    /\ pc' = [pc EXCEPT ![p] = "snapshot"]
    /\ UNCHANGED <<env, clock, state, metrics, req, loc, out, started, fn>>

\* Values a fitted model may predict (yhat is any float)
ProphetOutcomes ==
    {ProphetRaises, ProphetYields(I(25)), ProphetYields(I(-5))}

\* history = collector.snapshot(), then the forecast, its default, clamp and
\* rounding: all of it outside the state lock
SnapshotAndForecast(p) ==
    /\ pc[p] = "snapshot"
    /\ LET history == snapshot(points)
           request == Get(loc[p].request)
           model_path == PROPHET_AVAILABLE /\ Len(history) >= _min_points
       IN  \E prophet \in IF model_path THEN ProphetOutcomes ELSE {ProphetRaises} :
            LET f == forecast(history, prophet)
                predicted0 == IF IsNone(f) THEN request.observedRps ELSE Get(f)
                predicted == clamp(predicted0, I(0), max_rps)
            IN  loc' = [loc EXCEPT ![p].history = history,
                                   ![p].predicted = Some(predicted),
                                   ![p].predicted_rps = Some(Round3(predicted))]
    /\ pc' = [pc EXCEPT ![p] = "publish"]
    /\ UNCHANGED <<env, clock, points, state, metrics, req, out, started, fn>>

\* with state_lock: state.last_predicted_rps = predicted_rps; then the
\* validation of currentConfig picks the branch
PublishPredicted(p) ==
    /\ pc[p] = "publish"
    /\ state' = [state EXCEPT !.last_predicted_rps = loc[p].predicted_rps]
    /\ pc' = [pc EXCEPT ![p] =
            IF IsSome(validate_current_config(Get(loc[p].request).currentConfig))
            THEN "invalid_config" ELSE "policy"]
    /\ UNCHANGED <<env, clock, points, metrics, req, loc, out, started, fn>>

\* InvalidConfig, keeping the fallback it answered with as lastGoodConfig
InvalidConfig_stores_fallback(p) ==
    /\ pc[p] = "invalid_config"
    /\ LET fallback_config ==
                IF IsNone(state.last_good_config) THEN default_fallback_config
                ELSE Get(state.last_good_config)
       IN  /\ loc' = [loc EXCEPT
                ![p].fallback_config = Some(fallback_config),
                ![p].recommendation =
                    Some(keep_current_response(fallback_config,
                                               loc[p].predicted_rps)),
                ![p].result = "invalid_config"]
           /\ state' = [state EXCEPT !.last_good_config = Some(fallback_config)]
    /\ pc' = [pc EXCEPT ![p] = "metrics"]
    /\ UNCHANGED <<env, clock, points, metrics, req, out, started, fn>>

\* InvalidConfig, replying with state.last_predicted_rps where the code
\* replies with the local predicted_rps
InvalidConfig_shared_forecast(p) ==
    /\ pc[p] = "invalid_config"
    /\ LET fallback_config ==
                IF IsNone(state.last_good_config) THEN default_fallback_config
                ELSE Get(state.last_good_config)
       IN  loc' = [loc EXCEPT
                ![p].fallback_config = Some(fallback_config),
                ![p].recommendation =
                    Some(keep_current_response(fallback_config,
                                               state.last_predicted_rps)),
                ![p].result = "invalid_config"]
    /\ pc' = [pc EXCEPT ![p] = "metrics"]
    /\ UNCHANGED <<env, clock, points, state, metrics, req, out, started, fn>>

\* The invalid-config branch: with state_lock read last_good_config, then
\* build the keep-current response
InvalidConfig(p) ==
    /\ pc[p] = "invalid_config"
    /\ LET fallback_config ==
                IF IsNone(state.last_good_config) THEN default_fallback_config
                ELSE Get(state.last_good_config)
       IN  loc' = [loc EXCEPT
                ![p].fallback_config = Some(fallback_config),
                ![p].recommendation =
                    Some(keep_current_response(fallback_config,
                                               loc[p].predicted_rps)),
                ![p].result = "invalid_config"]
    /\ pc' = [pc EXCEPT ![p] = "metrics"]
    /\ UNCHANGED <<env, clock, points, state, metrics, req, out, started, fn>>

\* The ok path: with state_lock, recommend_config and the two assignments
Policy(p) ==
    /\ pc[p] = "policy"
    /\ LET request == Get(loc[p].request)
           rc == recommend_config(request, Get(loc[p].predicted),
                                  loc[p].history, state, Get(loc[p].received_at))
       IN  /\ state' = [rc.state EXCEPT
                    !.last_good_recommendation = Some(rc.recommendation),
                    !.last_good_config = Some(request.currentConfig)]
           /\ loc' = [loc EXCEPT ![p].recommendation = Some(rc.recommendation),
                                 ![p].result = "ok",
                                 ![p].branch = rc.branch]
    /\ pc' = [pc EXCEPT ![p] = "metrics"]
    /\ UNCHANGED <<env, clock, points, metrics, req, out, started, fn>>

\* update_metrics(...) and the return of the recommendation
UpdateMetrics(p) ==
    /\ pc[p] = "metrics"
    /\ metrics' = update_metrics(metrics, Get(loc[p].recommendation),
                                 loc[p].result)
    /\ out' = [out EXCEPT ![p] =
            [status |-> 200, body |-> loc[p].recommendation,
             result |-> loc[p].result]]
    /\ pc' = [pc EXCEPT ![p] = "done"]
    /\ UNCHANGED <<env, clock, points, state, req, loc, started, fn>>

\* POST /v1/limit-config with a body that fails the schema: the exception
\* handler starts, reads the body and extracts observedRps.
\* bodies holds <<>> (no JSON object) and <<dict>>.
ReceiveMalformed(p, bodies) ==
    /\ pc[p] = "idle"
    /\ started < MaxRequests
    /\ \E payload \in bodies :
        /\ ~LimitConfigRequest_ok(payload)
        /\ req' = [req EXCEPT ![p] = payload]
        /\ loc' = [loc EXCEPT ![p] =
                [Loc0 EXCEPT
                    !.payload = payload,
                    !.observed_rps =
                        IF IsSome(payload)
                        THEN parse_optional_float(Get(payload).observedRps)
                        ELSE NONE]]
    /\ pc' = [pc EXCEPT ![p] = "exc_state"]
    /\ started' = started + 1
    /\ UNCHANGED <<env, clock, points, state, metrics, out, fn>>

\* A RequestValidationError on a path other than /v1/limit-config
ReceiveElsewhere(p) ==
    /\ pc[p] = "idle"
    /\ started < MaxRequests
    /\ req' = [req EXCEPT ![p] = NONE]
    /\ loc' = [loc EXCEPT ![p] = Loc0]
    /\ out' = [out EXCEPT ![p] = [status |-> 422, body |-> NONE, result |-> ""]]
    /\ pc' = [pc EXCEPT ![p] = "done_elsewhere"]
    /\ started' = started + 1
    /\ UNCHANGED <<env, clock, points, state, metrics, fn>>

\* Handler: with state_lock, read the three state fields
ExcReadState(p) ==
    /\ pc[p] = "exc_state"
    /\ loc' = [loc EXCEPT
            ![p].fallback_config = state.last_good_config,
            ![p].fallback_recommendation = state.last_good_recommendation,
            ![p].last_predicted_rps = state.last_predicted_rps]
    /\ pc' = [pc EXCEPT ![p] = "exc_respond"]
    /\ UNCHANGED <<env, clock, points, state, metrics, req, out, started, fn>>

\* ExcRespond, also storing the coerced config as state.last_good_config
ExcRespond_stores_config(p) ==
    /\ pc[p] = "exc_respond"
    /\ LET current_config ==
                coerce_current_config(loc[p].payload, loc[p].fallback_config)
       IN  /\ loc' = [loc EXCEPT
                    ![p].history_len = Some(I(Len(snapshot(points)))),
                    ![p].recommendation =
                        Some(IF IsSome(current_config)
                             THEN keep_current_response(Get(current_config),
                                                        loc[p].last_predicted_rps)
                             ELSE keep_current_response(default_fallback_config,
                                                        loc[p].last_predicted_rps)),
                    ![p].result = "validation_error",
                    ![p].branch = IF IsSome(current_config) THEN "keep_current"
                                  ELSE "default"]
           /\ state' = [state EXCEPT !.last_good_config =
                            IF IsSome(current_config) THEN current_config ELSE @]
    /\ pc' = [pc EXCEPT ![p] = "exc_metrics"]
    /\ UNCHANGED <<env, clock, points, metrics, req, out, started, fn>>

\* Handler: history_len = len(collector.snapshot()), then the choice of reply
ExcRespond(p) ==
    /\ pc[p] = "exc_respond"
    /\ LET current_config ==
                coerce_current_config(loc[p].payload, loc[p].fallback_config)
           recommendation ==
                IF IsSome(current_config)
                THEN keep_current_response(Get(current_config),
                                           loc[p].last_predicted_rps)
                ELSE IF IsSome(loc[p].fallback_recommendation)
                THEN Get(loc[p].fallback_recommendation)
                ELSE keep_current_response(default_fallback_config,
                                           loc[p].last_predicted_rps)
           branch ==
                IF IsSome(current_config) THEN "keep_current"
                ELSE IF IsSome(loc[p].fallback_recommendation) THEN "replay"
                ELSE "default"
       IN  loc' = [loc EXCEPT ![p].history_len = Some(I(Len(snapshot(points)))),
                              ![p].recommendation = Some(recommendation),
                              ![p].result = "validation_error",
                              ![p].branch = branch]
    /\ pc' = [pc EXCEPT ![p] = "exc_metrics"]
    /\ UNCHANGED <<env, clock, points, state, metrics, req, out, started, fn>>

\* ExcUpdateMetrics, also recording the observedRps of the malformed body as a
\* sample
ExcUpdateMetrics_records_sample(p) ==
    /\ pc[p] = "exc_metrics"
    /\ metrics' = update_metrics_from_response(
                        metrics, Get(loc[p].recommendation), loc[p].result)
    /\ points' = IF IsSome(loc[p].observed_rps)
                 THEN add_point(points, clock, Get(loc[p].observed_rps))
                 ELSE points
    /\ out' = [out EXCEPT ![p] =
            [status |-> 200, body |-> loc[p].recommendation,
             result |-> loc[p].result]]
    /\ pc' = [pc EXCEPT ![p] = "done"]
    /\ UNCHANGED <<env, clock, state, req, loc, started, fn>>

\* Handler: update_metrics_from_response(...) and the JSONResponse
ExcUpdateMetrics(p) ==
    /\ pc[p] = "exc_metrics"
    /\ metrics' = update_metrics_from_response(
                        metrics, Get(loc[p].recommendation), loc[p].result)
    /\ out' = [out EXCEPT ![p] =
            [status |-> 200, body |-> loc[p].recommendation,
             result |-> loc[p].result]]
    /\ pc' = [pc EXCEPT ![p] = "done"]
    /\ UNCHANGED <<env, clock, points, state, req, loc, started, fn>>

\* The reply has been sent; the worker takes the next request.
Complete(p) ==
    /\ pc[p] \in {"done", "done_elsewhere"}
    /\ pc' = [pc EXCEPT ![p] = "idle"]
    /\ req' = [req EXCEPT ![p] = NONE]
    /\ loc' = [loc EXCEPT ![p] = Loc0]
    /\ out' = [out EXCEPT ![p] = Out0]
    /\ UNCHANGED <<env, clock, points, state, metrics, started, fn>>

---------------------------------------------------------------------------
(* The requests the service is driven with *)

Absent == Timestamp("absent", 0)

FixedConfig(limit, window) ==
    RawConfig(Some("fixed"), Some(limit), Some(I(window)), NONE, NONE)
SlidingConfig(limit, window) ==
    RawConfig(Some("sliding"), Some(limit), Some(I(window)), NONE, NONE)
TokenConfig(capacity, fillRate) ==
    RawConfig(Some("token"), NONE, NONE, Some(I(capacity)), Some(fillRate))

Decision(ts, obs, rej, cfg) == Body(ts, Some(obs), rej, NONE, NONE, Some(cfg))

Rejecting == Some(R(1, 5))

\* Bodies that pass the schema
DecisionBodies ==
    { Decision(Absent, I(10), NONE, FixedConfig(I(10), 1)),
      Decision(Absent, I(10), Rejecting, FixedConfig(I(10), 1)),
      Decision(Absent, I(10), NONE, FixedConfig(R(1, 2), 1)),
      Decision(Absent, I(10), NONE, TokenConfig(100, I(10))),
      Decision(Absent, I(10), NONE, SlidingConfig(I(0), 1)),
      Decision(Timestamp("num_range", 0), I(10), NONE, FixedConfig(I(10), 1)) }

\* Bodies that fail the schema: no JSON object, {"garbage": true}, and a
\* negative limit next to an otherwise usable currentConfig
MalformedBodies ==
    { NONE,
      Some(Body(Absent, NONE, NONE, NONE, NONE, NONE)),
      Some(Body(Absent, Some(I(10)), NONE, NONE, NONE,
                Some(FixedConfig(I(-1), 1)))),
      Some(Body(Absent, NONE, NONE, NONE, NONE,
                Some(FixedConfig(R(1, 2), 1)))) }

\* The defaults, with the model library installed and MIN_HISTORY_POINTS=2
ModelEnv ==
    [DefaultEnv EXCEPT !.PROPHET_AVAILABLE = TRUE, !.MIN_HISTORY_POINTS = 2]

Init == InitWith(ModelEnv)

\* The steps of limit_config after the request was received, ok path
HandleOk(p) ==
    \/ AddPoint(p)
    \/ SnapshotAndForecast(p)
    \/ PublishPredicted(p)
    \/ Policy(p)
    \/ UpdateMetrics(p)
    \/ Complete(p)

\* The steps of request_validation_exception_handler on /v1/limit-config
HandleMalformed(p) ==
    \/ ExcReadState(p)
    \/ ExcRespond(p)
    \/ ExcUpdateMetrics(p)

Next ==
    \/ Tick
    \/ \E p \in Procs : ReceiveDecision(p, DecisionBodies)
    \/ \E p \in Procs : ReceiveMalformed(p, MalformedBodies)
    \/ \E p \in Procs : ReceiveElsewhere(p)
    \/ \E p \in Procs : HandleOk(p)
    \/ \E p \in Procs : InvalidConfig(p)
    \/ \E p \in Procs : HandleMalformed(p)

Spec == Init /\ [][Next]_vars

AtZero == Timestamp("num", 0)

\* Hysteresis under concurrency: the same client reports its limiter with and
\* without an overload signal, from several connections
HysteresisBodies ==
    { Decision(AtZero, I(10), NONE, FixedConfig(I(10), 1)),
      Decision(AtZero, I(10), Rejecting, FixedConfig(I(10), 1)),
      Decision(AtZero, I(10), NONE, TokenConfig(100, I(10))) }

InitDefault == InitWith(DefaultEnv)

NextHysteresis ==
    \/ Tick
    \/ \E p \in Procs : ReceiveDecision(p, HysteresisBodies)
    \/ \E p \in Procs : HandleOk(p)

SpecHysteresis == InitDefault /\ [][NextHysteresis]_vars

\* The invalid-config branch next to ok-path requests that move the forecast
\* and lastGoodConfig
InvalidBodies ==
    { Decision(AtZero, I(25), NONE, SlidingConfig(I(0), 1)),
      Decision(AtZero, I(10), NONE, RawConfig(Some("leaky"), NONE, NONE, NONE, NONE)),
      Decision(AtZero, I(10), Rejecting, FixedConfig(R(5, 2), 1)) }

NextInvalid ==
    \/ \E p \in Procs : ReceiveDecision(p, InvalidBodies)
    \/ \E p \in Procs : HandleOk(p)
    \/ \E p \in Procs : InvalidConfig(p)

SpecInvalid == InitDefault /\ [][NextInvalid]_vars

---------------------------------------------------------------------------
(* The buffer on its own: DataCollector driven through add_point/snapshot *)

\* Configured values of HISTORY_WINDOW_SECONDS and MAX_HISTORY_POINTS
BufferEnvs ==
    { [DefaultEnv EXCEPT !.HISTORY_WINDOW_SECONDS = w, !.MAX_HISTORY_POINTS = m] :
        w \in {0, 1, 2}, m \in {1, 2, 3} }

\* Sample timestamps, in microseconds
SampleTimes == {0, 1, 500000, 1000000, 2000000, 3000000}

InitBuffer == \E e \in BufferEnvs : InitWith(e)

\* collector.add_point(ts, rps); fn keeps the call's arguments
CallAddPoint ==
    /\ started < MaxAppends
    /\ \E ts \in SampleTimes, rps \in {I(10)} :
        /\ points' = add_point(points, ts, rps)
        /\ fn' = Some([op |-> "add_point", ts |-> ts, rps |-> rps, result |-> <<>>])
    /\ started' = started + 1
    /\ UNCHANGED <<env, clock, state, metrics, pc, req, loc, out>>

\* collector.snapshot(); fn keeps the list returned
CallSnapshot ==
    /\ IsSome(fn) /\ Get(fn).op = "add_point"
    /\ fn' = Some([op |-> "snapshot", ts |-> 0, rps |-> I(0),
                   result |-> snapshot(points)])
    /\ UNCHANGED <<env, clock, points, state, metrics, pc, req, loc, out, started>>

NextBuffer == CallAddPoint \/ CallSnapshot

SpecBuffer == InitBuffer /\ [][NextBuffer]_vars

---------------------------------------------------------------------------
(* Algorithm switching *)

\* Switching allowed, with a switch interval longer than the change interval
\* and burstiness judged on two samples
SwitchEnv ==
    [DefaultEnv EXCEPT !.ALLOW_ALGO_SWITCH = TRUE,
                       !.MIN_ALGO_SWITCH_INTERVAL_SECONDS = 60,
                       !.BURSTINESS_POINTS = 2]

\* A token limiter on steady traffic and a fixed limiter whose second sample
\* makes the history bursty
SwitchBodies ==
    { Decision(AtZero, I(10), NONE, TokenConfig(20, I(10))),
      Decision(AtZero, I(10), NONE, FixedConfig(I(10), 1)),
      Decision(AtZero, I(40), NONE, FixedConfig(I(10), 1)) }

\* The wall clock moves by one or two change intervals.
TickSwitch ==
    /\ clock < Seconds(MaxClockSeconds)
    /\ \E s \in {MIN_CHANGE_INTERVAL_SECONDS, MIN_ALGO_SWITCH_INTERVAL_SECONDS} :
            clock' = clock + Seconds(s)
    /\ UNCHANGED <<env, points, state, metrics, pc, req, loc, out, started, fn>>

NextSwitch ==
    \/ TickSwitch
    \/ \E p \in Procs : ReceiveDecision(p, SwitchBodies)
    \/ \E p \in Procs : HandleOk(p)

InitSwitch == InitWith(SwitchEnv)

SpecSwitch == InitSwitch /\ [][NextSwitch]_vars

---------------------------------------------------------------------------
(* Overload and spike decisions *)

\* Overloaded limiters far from and next to the MIN_RPS floor, and a limiter
\* whose traffic has doubled
OverloadBodies ==
    { Decision(AtZero, I(30), Rejecting, FixedConfig(I(100), 1)),
      Decision(AtZero, I(10), Rejecting, FixedConfig(I(2), 1)),
      Decision(AtZero, I(10), Rejecting, SlidingConfig(I(62), 60)),
      Decision(AtZero, I(40), NONE, FixedConfig(I(10), 1)) }

NextOverload ==
    \/ Tick
    \/ \E p \in Procs : ReceiveDecision(p, OverloadBodies)
    \/ \E p \in Procs : HandleOk(p)

SpecOverload == InitDefault /\ [][NextOverload]_vars

---------------------------------------------------------------------------
(* Steady traffic inside the dead band *)

\* Limiters whose traffic stays at or just below the limit, one of them with
\* a fractional limit
DeadBandBodies ==
    { Decision(AtZero, I(10), NONE, FixedConfig(I(10), 1)),
      Decision(AtZero, I(9), NONE, FixedConfig(I(10), 1)),
      Decision(AtZero, R(5, 2), NONE, FixedConfig(R(5, 2), 1)) }

NextDeadBand ==
    \/ Tick
    \/ \E p \in Procs : ReceiveDecision(p, DeadBandBodies)
    \/ \E p \in Procs : HandleOk(p)

SpecDeadBand == InitDefault /\ [][NextDeadBand]_vars

---------------------------------------------------------------------------
(* recommend_config applied to its own answer *)

\* Requests on an empty history: limiters of each algorithm, with and without
\* an overload signal
RoundTripRequests ==
    { LimitConfigRequest(Some(Decision(AtZero, I(10), rej, cfg))) :
        rej \in {NONE, Rejecting},
        cfg \in { FixedConfig(I(10), 1), FixedConfig(I(100), 1),
                  FixedConfig(R(5, 2), 1), SlidingConfig(I(62), 60),
                  TokenConfig(20, I(10)) } }

\* Forecasts below, inside and above the dead band of those limiters
RoundTripForecasts == {I(1), I(5), I(10), R(25, 2), I(40), I(300)}

\* Seconds between the two requests
RoundTripGaps == {0, 15, 30, 60}

\* recommend_config for a request on fresh state, then for the same telemetry
\* with the recommendation as currentConfig, gap seconds later
CallRoundTrip ==
    /\ \E request \in RoundTripRequests, predicted \in RoundTripForecasts,
          gap \in RoundTripGaps :
        LET first == recommend_config(request, predicted, <<>>, State0, 0)
            fed == AsIncomingConfig(first.recommendation)
            again == [request EXCEPT !.currentConfig = fed]
            second == recommend_config(again, predicted, <<>>, first.state,
                                       Seconds(gap))
        IN  /\ IsNone(validate_current_config(request.currentConfig))
            /\ IsNone(validate_current_config(fed))
            /\ fn' = Some([op |-> "round_trip", request |-> request,
                           predicted |-> predicted, gap |-> gap,
                           first |-> first, second |-> second])
    /\ UNCHANGED <<env, clock, points, state, metrics, pc, req, loc, out, started>>

NextRoundTrip == CallRoundTrip

SpecRoundTrip == InitDefault /\ [][NextRoundTrip]_vars

---------------------------------------------------------------------------
(* The fallback paths next to the ok path *)

\* Ok-path, invalid-config and malformed requests from several connections,
\* all at one reading of the wall clock
NextFallback ==
    \/ \E p \in Procs : ReceiveDecision(p, InvalidBodies)
    \/ \E p \in Procs : ReceiveMalformed(p, MalformedBodies)
    \/ \E p \in Procs : HandleOk(p)
    \/ \E p \in Procs : InvalidConfig(p)
    \/ \E p \in Procs : HandleMalformed(p)

SpecFallback == InitDefault /\ [][NextFallback]_vars

---------------------------------------------------------------------------
(* The forecast carried by every reply *)

\* A falling load sampled one second apart, reported with a usable and with
\* an unusable currentConfig
ForecastBodies ==
    { Decision(AtZero, I(25), NONE, FixedConfig(I(10), 1)),
      Decision(Timestamp("num", Seconds(1)), I(10), NONE, FixedConfig(I(10), 1)),
      Decision(Timestamp("num", Seconds(1)), I(10), NONE, SlidingConfig(I(0), 1)) }

NextForecast ==
    \/ \E p \in Procs : ReceiveDecision(p, ForecastBodies)
    \/ \E p \in Procs : ReceiveMalformed(p, MalformedBodies)
    \/ \E p \in Procs : HandleOk(p)
    \/ \E p \in Procs : InvalidConfig(p)
    \/ \E p \in Procs : HandleMalformed(p)

SpecForecast == Init /\ [][NextForecast]_vars

---------------------------------------------------------------------------
(* Every kind of timestamp the schema admits *)

TimestampValues ==
    { Absent, AtZero, Timestamp("iso", Seconds(1)),
      Timestamp("numstr", Seconds(2)), Timestamp("num_range", 0),
      Timestamp("numstr_year", 0), Timestamp("numstr_over", 0),
      Timestamp("garbage", 0) }

TimestampBodies ==
    { Decision(ts, I(10), NONE, FixedConfig(I(10), 1)) : ts \in TimestampValues }

NextTimestamp ==
    \/ Tick
    \/ \E p \in Procs : ReceiveDecision(p, TimestampBodies)
    \/ \E p \in Procs : HandleOk(p)

SpecTimestamp == InitDefault /\ [][NextTimestamp]_vars

---------------------------------------------------------------------------
(* default_fallback_config on its own *)

\* Deployments by MIN_RPS, MAX_RPS and DEFAULT_WINDOW_SECONDS: negative, zero,
\* fractional, the defaults, and MIN_RPS above MAX_RPS
DefaultConfigEnvs ==
    { [DefaultEnv EXCEPT !.MIN_RPS = lo, !.MAX_RPS = hi,
                         !.DEFAULT_WINDOW_SECONDS = w] :
        lo \in {I(-1), I(0), R(1, 2), I(1), I(3), I(20000)},
        hi \in {I(-5), I(0), R(1, 100), R(1, 3), R(1, 2), I(1), I(10000)},
        w \in {-1, 0, 1, 2, 60} }

InitDefaultConfig == \E e \in DefaultConfigEnvs : InitWith(e)

CallDefaultFallbackConfig ==
    /\ fn' = Some([op |-> "default_fallback_config",
                   config |-> default_fallback_config])
    /\ UNCHANGED <<env, clock, points, state, metrics, pc, req, loc, out, started>>

NextDefaultConfig == CallDefaultFallbackConfig

SpecDefaultConfig == InitDefaultConfig /\ [][NextDefaultConfig]_vars

---------------------------------------------------------------------------
(* The state lock, statement by statement *)

\* The worker is inside the with state_lock block of the ok path
HoldsStateLock(p) ==
    pc[p] \in {"policy_recommend", "policy_store_recommendation",
               "policy_store_config"}

\* state_lock, handed out whether or not it is held
StateLockFree_unguarded == TRUE

\* state_lock can be acquired
StateLockFree == \A q \in Procs : ~HoldsStateLock(q)

\* with state_lock: entered by the ok path
PolicyAcquire(p) ==
    /\ pc[p] = "policy"
    /\ StateLockFree
    /\ pc' = [pc EXCEPT ![p] = "policy_recommend"]
    /\ UNCHANGED <<env, clock, points, state, metrics, req, loc, out, started, fn>>

\* recommendation = recommend_config(request, predicted, history, state,
\* received_at): reads and updates last_change_at and last_algo_switch_at
PolicyRecommend(p) ==
    /\ pc[p] = "policy_recommend"
    /\ LET rc == recommend_config(Get(loc[p].request), Get(loc[p].predicted),
                                  loc[p].history, state, Get(loc[p].received_at))
       IN  /\ state' = rc.state
           /\ loc' = [loc EXCEPT ![p].recommendation = Some(rc.recommendation),
                                 ![p].result = "ok",
                                 ![p].branch = rc.branch]
    /\ pc' = [pc EXCEPT ![p] = "policy_store_recommendation"]
    /\ UNCHANGED <<env, clock, points, metrics, req, out, started, fn>>

\* state.last_good_recommendation = recommendation
PolicyStoreRecommendation(p) ==
    /\ pc[p] = "policy_store_recommendation"
    /\ state' = [state EXCEPT
            !.last_good_recommendation = loc[p].recommendation]
    /\ pc' = [pc EXCEPT ![p] = "policy_store_config"]
    /\ UNCHANGED <<env, clock, points, metrics, req, loc, out, started, fn>>

\* state.last_good_config = request.currentConfig, and the lock is released
PolicyStoreConfig(p) ==
    /\ pc[p] = "policy_store_config"
    /\ state' = [state EXCEPT
            !.last_good_config = Some(Get(loc[p].request).currentConfig)]
    /\ pc' = [pc EXCEPT ![p] = "metrics"]
    /\ UNCHANGED <<env, clock, points, metrics, req, loc, out, started, fn>>

\* The other with state_lock blocks: one statement each, entered only when the
\* lock is free
LockedPublishPredicted(p) == StateLockFree /\ PublishPredicted(p)
LockedInvalidConfig(p) == StateLockFree /\ InvalidConfig(p)
\* The handler's read of the state, made without taking the lock
LockedExcReadState_unguarded(p) == ExcReadState(p)

LockedExcReadState(p) == StateLockFree /\ ExcReadState(p)

\* A limiter reported with and without an overload signal, and an unusable
\* currentConfig
LockBodies ==
    { Decision(AtZero, I(10), NONE, FixedConfig(I(10), 1)),
      Decision(AtZero, I(10), Rejecting, FixedConfig(I(10), 1)),
      Decision(AtZero, I(10), NONE, SlidingConfig(I(0), 1)) }

NextLock ==
    \/ \E p \in Procs : ReceiveDecision(p, LockBodies)
    \/ \E p \in Procs : ReceiveMalformed(p, MalformedBodies)
    \/ \E p \in Procs : AddPoint(p)
    \/ \E p \in Procs : SnapshotAndForecast(p)
    \/ \E p \in Procs : LockedPublishPredicted(p)
    \/ \E p \in Procs : LockedInvalidConfig(p)
    \/ \E p \in Procs : PolicyAcquire(p)
    \/ \E p \in Procs : PolicyRecommend(p)
    \/ \E p \in Procs : PolicyStoreRecommendation(p)
    \/ \E p \in Procs : PolicyStoreConfig(p)
    \/ \E p \in Procs : UpdateMetrics(p)
    \/ \E p \in Procs : LockedExcReadState(p)
    \/ \E p \in Procs : ExcRespond(p)
    \/ \E p \in Procs : ExcUpdateMetrics(p)
    \/ \E p \in Procs : Complete(p)

SpecLock == InitDefault /\ [][NextLock]_vars

---------------------------------------------------------------------------
(* Both locks, statement by statement, under fair scheduling *)

\* The worker is inside the with self._lock block of add_point
HoldsBufferLock(p) == pc[p] \in {"add_point_append", "add_point_trim"}

\* collector._lock can be acquired
BufferLockFree == \A q \in Procs : ~HoldsBufferLock(q)

\* Runnable, with _trim taking self._lock again while add_point holds it
Runnable_trim_takes_lock(p) ==
    /\ pc[p] \in {"add_point", "add_point_trim", "snapshot", "exc_respond"}
            => BufferLockFree
    /\ pc[p] \in {"publish", "invalid_config", "policy", "exc_state"}
            => StateLockFree

\* The thread of worker p is not waiting for a lock: the statement it is at
\* enters no with block, or the lock of that block is free
Runnable(p) ==
    /\ pc[p] \in {"add_point", "snapshot", "exc_respond"} => BufferLockFree
    /\ pc[p] \in {"publish", "invalid_config", "policy", "exc_state"}
            => StateLockFree

\* add_point: with self._lock entered
AddPointAcquire(p) ==
    /\ pc[p] = "add_point"
    /\ Runnable(p)
    /\ pc' = [pc EXCEPT ![p] = "add_point_append"]
    /\ UNCHANGED <<env, clock, points, state, metrics, req, loc, out, started, fn>>

\* add_point: the timestamp is moved past the tail and the sample appended
AddPointAppend(p) ==
    /\ pc[p] = "add_point_append"
    /\ Runnable(p)
    /\ LET ts == Get(loc[p].sample_ts)
           ts1 == IF points # <<>> /\ ts <= Last(points).ts
                  THEN Last(points).ts + 1 ELSE ts
       IN  points' = Append(points,
                            TimePoint(ts1, Get(loc[p].request).observedRps))
    /\ pc' = [pc EXCEPT ![p] = "add_point_trim"]
    /\ UNCHANGED <<env, clock, state, metrics, req, loc, out, started, fn>>

\* add_point: self._trim(), and the lock is released
AddPointTrim(p) ==
    /\ pc[p] = "add_point_trim"
    /\ Runnable(p)
    /\ points' = _trim(points)
    /\ pc' = [pc EXCEPT ![p] = "snapshot"]
    /\ UNCHANGED <<env, clock, state, metrics, req, loc, out, started, fn>>

\* collector.snapshot() takes the buffer lock for its one statement
LockedSnapshotAndForecast(p) == Runnable(p) /\ SnapshotAndForecast(p)
LockedExcRespond(p) == Runnable(p) /\ ExcRespond(p)

\* The steps of a request once it is received
WorkerStep(p) ==
    \/ AddPointAcquire(p)
    \/ AddPointAppend(p)
    \/ AddPointTrim(p)
    \/ LockedSnapshotAndForecast(p)
    \/ LockedPublishPredicted(p)
    \/ LockedInvalidConfig(p)
    \/ PolicyAcquire(p)
    \/ PolicyRecommend(p)
    \/ PolicyStoreRecommendation(p)
    \/ PolicyStoreConfig(p)
    \/ UpdateMetrics(p)
    \/ LockedExcReadState(p)
    \/ LockedExcRespond(p)
    \/ ExcUpdateMetrics(p)
    \/ Complete(p)

NextLocks ==
    \/ \E p \in Procs : ReceiveDecision(p, LockBodies)
    \/ \E p \in Procs : ReceiveMalformed(p, MalformedBodies)
    \/ \E p \in Procs : WorkerStep(p)

\* The statement after each statement of the two handlers
PcAfter ==
    [ add_point |-> {"add_point_append"},
      add_point_append |-> {"add_point_trim"},
      add_point_trim |-> {"snapshot"},
      snapshot |-> {"publish"},
      publish |-> {"invalid_config", "policy"},
      invalid_config |-> {"metrics"},
      policy |-> {"policy_recommend"},
      policy_recommend |-> {"policy_store_recommendation"},
      policy_store_recommendation |-> {"policy_store_config"},
      policy_store_config |-> {"metrics"},
      metrics |-> {"done"},
      exc_state |-> {"exc_respond"},
      exc_respond |-> {"exc_metrics"},
      exc_metrics |-> {"done"},
      done |-> {"idle"} ]

\* What the scheduler sees of a step of worker p: the thread is runnable and
\* moves on to a next statement
ThreadRuns(p) ==
    /\ pc[p] \in DOMAIN PcAfter
    /\ Runnable(p)
    /\ \E next \in PcAfter[pc[p]] : pc' = [pc EXCEPT ![p] = next]

\* A thread that stays runnable is eventually run
SpecLocks ==
    InitDefault /\ [][NextLocks]_vars /\ \A p \in Procs : WF_pc(ThreadRuns(p))

---------------------------------------------------------------------------
(* Samples of concurrent requests *)

\* Request A, stamped one second, and request B, stamped two seconds
OrderBodies ==
    { Decision(Timestamp("num", Seconds(1)), I(10), NONE, FixedConfig(I(10), 1)),
      Decision(Timestamp("num", Seconds(2)), I(10), NONE, FixedConfig(I(10), 1)) }

NextOrder ==
    \/ \E p \in Procs : ReceiveDecision(p, OrderBodies)
    \/ \E p \in Procs : HandleOk(p)

SpecOrder == InitDefault /\ [][NextOrder]_vars

---------------------------------------------------------------------------
(* Requests next to the appends of other requests *)

\* The smallest buffer: one second of history, MAX_HISTORY_POINTS = 1
AppendEnv ==
    [DefaultEnv EXCEPT !.HISTORY_WINDOW_SECONDS = 1, !.MAX_HISTORY_POINTS = 1]

InitAppend == InitWith(AppendEnv)

\* collector.add_point(sample_ts, observedRps) of a request served by another
\* worker of the process, stamped before or after the requests followed here
OtherAddPoint ==
    /\ started < MaxAppends
    /\ \E ts \in {0, Seconds(3)} : points' = add_point(points, ts, I(10))
    /\ started' = started + 1
    /\ UNCHANGED <<env, clock, state, metrics, pc, req, loc, out, fn>>

\* Decision requests stamped one and two seconds, between the appends of
\* other requests
NextAppend ==
    \/ \E p \in Procs : ReceiveDecision(p, OrderBodies)
    \/ \E p \in Procs : HandleOk(p)
    \/ OtherAddPoint

SpecAppend == InitAppend /\ [][NextAppend]_vars

---------------------------------------------------------------------------
(* The metrics update, statement by statement *)

\* Every iteration order a Python set of the three names can have
AlgorithmOrders ==
    { o \in [1..3 -> ALLOWED_ALGORITHMS] : \A a \in ALLOWED_ALGORITHMS : \E i \in 1..3 : o[i] = a }

GaugeEnvs == { [DefaultEnv EXCEPT !.ALGORITHM_ORDER = o] : o \in AlgorithmOrders }

InitGauge == \E e \in GaugeEnvs : InitWith(e)

\* The position of a worker inside the loop of update_algorithm_gauge
GaugePc == <<"gauge_1", "gauge_2", "gauge_3">>

\* REQUESTS_TOTAL.labels(result=result).inc() of update_metrics and of
\* update_metrics_from_response, up to the call of update_algorithm_gauge
CountRequest(p) ==
    /\ pc[p] \in {"metrics", "exc_metrics"}
    /\ metrics' = [metrics EXCEPT !.requests_total[loc[p].result] = @ + 1]
    /\ pc' = [pc EXCEPT ![p] =
            IF Get(loc[p].recommendation).algorithm \in ALLOWED_ALGORITHMS
            THEN GaugePc[1] ELSE "reply"]
    /\ UNCHANGED <<env, clock, points, state, req, loc, out, started, fn>>

\* One iteration of the loop of update_algorithm_gauge:
\* LAST_ALGORITHM.labels(algorithm=algo).set(1.0 if algo == algorithm else 0.0)
SetAlgorithmLabel(p) ==
    \E i \in 1..3 :
        /\ pc[p] = GaugePc[i]
        /\ LET algo == ALGORITHM_ORDER[i] IN
            metrics' = [metrics EXCEPT !.last_algorithm[algo] =
                Some(IF algo = Get(loc[p].recommendation).algorithm
                     THEN 1 ELSE 0)]
        /\ pc' = [pc EXCEPT ![p] = IF i < 3 THEN GaugePc[i + 1] ELSE "reply"]
        /\ UNCHANGED <<env, clock, points, state, req, loc, out, started, fn>>

\* The rest of the metrics update and the reply
SendReply(p) ==
    /\ pc[p] = "reply"
    /\ out' = [out EXCEPT ![p] =
            [status |-> 200, body |-> loc[p].recommendation,
             result |-> loc[p].result]]
    /\ pc' = [pc EXCEPT ![p] = "done"]
    /\ UNCHANGED <<env, clock, points, state, metrics, req, loc, started, fn>>

\* Limiters of two algorithms, and an unusable currentConfig
GaugeBodies ==
    { Decision(AtZero, I(10), NONE, FixedConfig(I(10), 1)),
      Decision(AtZero, I(10), NONE, TokenConfig(20, I(10))),
      Decision(AtZero, I(10), NONE, SlidingConfig(I(0), 1)) }

NextGauge ==
    \/ \E p \in Procs : ReceiveDecision(p, GaugeBodies)
    \/ \E p \in Procs : ReceiveMalformed(p, MalformedBodies)
    \/ \E p \in Procs : AddPoint(p)
    \/ \E p \in Procs : SnapshotAndForecast(p)
    \/ \E p \in Procs : PublishPredicted(p)
    \/ \E p \in Procs : InvalidConfig(p)
    \/ \E p \in Procs : Policy(p)
    \/ \E p \in Procs : ExcReadState(p)
    \/ \E p \in Procs : ExcRespond(p)
    \/ \E p \in Procs : CountRequest(p)
    \/ \E p \in Procs : SetAlgorithmLabel(p)
    \/ \E p \in Procs : SendReply(p)
    \/ \E p \in Procs : Complete(p)

SpecGauge == InitGauge /\ [][NextGauge]_vars

---------------------------------------------------------------------------
(* Forecaster.forecast on its own *)

\* Histories of up to three samples one second apart: idle, steady, rising
\* and falling load
Histories ==
    UNION { { [i \in 1..n |-> TimePoint(Seconds(i - 1), rps[i])] :
                rps \in [1..n -> {I(0), I(10), I(40)}] } : n \in 0..3 }

\* forecaster.forecast(points), with every outcome of the model path
CallForecast ==
    /\ \E pts \in Histories,
          prophet \in {ProphetRaises, ProphetYields(I(25)), ProphetYields(I(-5))} :
        fn' = Some([op |-> "forecast", points |-> pts, prophet |-> prophet,
                    result |-> forecast(pts, prophet)])
    /\ UNCHANGED <<env, clock, points, state, metrics, pc, req, loc, out, started>>

NextForecaster == CallForecast

SpecForecaster == Init /\ [][NextForecaster]_vars

---------------------------------------------------------------------------
(* Overload reported by limiters at the edges *)

\* Overloaded limiters: at 10 rps, below MIN_RPS (fixed and token), and with a
\* fractional limit
SafetyBodies ==
    { Decision(AtZero, I(10), Rejecting, FixedConfig(I(10), 1)),
      Decision(AtZero, I(10), Rejecting, FixedConfig(I(1), 2)),
      Decision(AtZero, I(10), Rejecting, TokenConfig(1, R(1, 2))),
      Decision(AtZero, I(10), Rejecting, FixedConfig(R(21, 2), 1)) }

NextSafety ==
    \/ \E p \in Procs : ReceiveDecision(p, SafetyBodies)
    \/ \E p \in Procs : HandleOk(p)

SpecSafety == InitDefault /\ [][NextSafety]_vars

---------------------------------------------------------------------------
(* The target RPS on its own *)

\* Limiters at the floor, at 10 rps (fixed and token) and near the ceiling,
\* with no signal and with each overload signal
TargetRequests ==
    { LimitConfigRequest(Some(Body(AtZero, Some(I(10)), sig[1], sig[2], sig[3],
                                   Some(cfg)))) :
        sig \in { <<NONE, NONE, NONE>>, <<Rejecting, NONE, NONE>>,
                  <<NONE, Some(I(2)), NONE>>, <<NONE, NONE, Some(1)>>,
                  <<Some(R(1, 20)), Some(R(1, 2)), Some(0)>> },
        cfg \in { FixedConfig(I(1), 1), FixedConfig(I(10), 1),
                  TokenConfig(20, I(10)), FixedConfig(I(9000), 1) } }

\* The target of recommend_config for forecasts on both sides of every
\* threshold of a limiter at 10 rps
CallTargetRps ==
    /\ \E request \in TargetRequests,
          predicted \in { I(0), I(5), I(8), R(81, 10), I(10), I(11), R(111, 10),
                          I(19), I(20), I(40), I(300), I(9950), I(10000) } :
        fn' = Some([op |-> "target_rps", request |-> request,
                    predicted |-> predicted,
                    result |-> target_rps(request, predicted)])
    /\ UNCHANGED <<env, clock, points, state, metrics, pc, req, loc, out, started>>

NextTarget == CallTargetRps

SpecTarget == InitDefault /\ [][NextTarget]_vars

---------------------------------------------------------------------------
(* recommend_config on its own *)

\* Deployments by MIN_RPS and MAX_RPS (the defaults, no upper clamp, a range
\* narrower than one request per second, bounds with four decimals), each
\* with algorithm switching off and on
RecommendEnvs ==
    { [DefaultEnv EXCEPT !.MIN_RPS = b[1], !.MAX_RPS = b[2],
                         !.ALLOW_ALGO_SWITCH = allow,
                         !.BURSTINESS_POINTS = 2] :
        b \in { <<I(1), I(10000)>>, <<I(1), I(0)>>, <<R(6, 5), R(9, 5)>>,
                <<R(10004, 10000), R(500006, 10000)>> },
        allow \in BOOLEAN }

InitRecommend == \E e \in RecommendEnvs : InitWith(e)

\* Limiters of each algorithm inside, below and above the range, with and
\* without an overload signal; one names the token bucket by its alias
RecommendBodies ==
    { Decision(AtZero, I(10), rej, cfg) :
        rej \in {NONE, Rejecting},
        cfg \in { FixedConfig(I(10), 1), FixedConfig(I(1), 2),
                  FixedConfig(I(20000), 1), SlidingConfig(I(62), 60),
                  TokenConfig(20, I(10)), TokenConfig(1, R(1, 2)),
                  RawConfig(Some("token_bucket"), NONE, NONE, Some(I(20)),
                            Some(I(10))) } }

\* The history snapshot: empty, steady, and with a burst in its tail
RecommendHistories ==
    { <<>>,
      <<TimePoint(0, I(10)), TimePoint(Seconds(1), I(10))>>,
      <<TimePoint(0, I(10)), TimePoint(Seconds(1), I(40))>> }

\* The hysteresis state met by the request: no change yet, or a change (and a
\* switch) one second or a full switch interval before now
RecommendStates ==
    { [State0 EXCEPT !.last_change_at = c, !.last_algo_switch_at = s] :
        c \in {NONE, Some(Seconds(299))},
        s \in {NONE, Some(Seconds(1)), Some(0)} }

\* recommend_config(request, predicted_rps, history, state, now) at
\* now = 300 s, once per run (the call reads nothing an earlier call wrote);
\* fn keeps the arguments and what the call returns and leaves
CallRecommendConfig ==
    /\ IsNone(fn)
    /\ \E body \in RecommendBodies, predicted \in {I(0), I(10), I(40), I(20000)},
          history \in RecommendHistories, st \in RecommendStates :
        LET request == LimitConfigRequest(Some(body))
            now == Seconds(MIN_ALGO_SWITCH_INTERVAL_SECONDS)
        IN  /\ LimitConfigRequest_ok(Some(body))
            /\ IsNone(validate_current_config(request.currentConfig))
            /\ fn' = Some([op |-> "recommend_config", body |-> body,
                           request |-> request, predicted |-> predicted,
                           history |-> history, state |-> st, now |-> now,
                           result |-> recommend_config(request, predicted,
                                                       history, st, now)])
    /\ UNCHANGED <<env, clock, points, state, metrics, pc, req, loc, out, started>>

NextRecommend == CallRecommendConfig

SpecRecommend == InitRecommend /\ [][NextRecommend]_vars

---------------------------------------------------------------------------
(* build_response on its own *)

\* currentConfig values that pass validate_current_config and whose
\* current_rps_limit lies within [MIN_RPS, MAX_RPS]
BuildConfigs ==
    LET windowed ==
            { LimitConfigIn(RawConfig(Some(a), Some(l), Some(I(w)), NONE, NONE)) :
                a \in {"fixed", "sliding"},
                l \in {I(1), R(5, 2), I(10), I(60), I(100)},
                w \in {1, 3, 60} }
        token ==
            { LimitConfigIn(TokenConfig(c, f)) :
                c \in {2, 20, 100}, f \in {I(1), I(10), R(20005, 10000)} }
    IN  { c \in windowed \cup token :
            /\ IsNone(validate_current_config(c))
            /\ RGe(current_rps_limit(c), MIN_RPS)
            /\ RLe(current_rps_limit(c), MAX_RPS) }

\* build_response(config.algorithm, current_rps_limit(config), config, p)
CallBuildResponse ==
    /\ \E c \in BuildConfigs, p \in {NONE, Some(I(0)), Some(I(10)), Some(R(25, 2))} :
        fn' = Some([op |-> "build_response", config |-> c,
                    result |-> build_response(c.algorithm, current_rps_limit(c),
                                              c, p)])
    /\ UNCHANGED <<env, clock, points, state, metrics, pc, req, loc, out, started>>

NextBuild == CallBuildResponse

SpecBuild == InitDefault /\ [][NextBuild]_vars

---------------------------------------------------------------------------
(* fallback_forecast on its own *)

\* The defaults, and every pairing of a short or absent horizon with a short
\* or absent fallback window
ExtrapolationEnvs ==
    { [DefaultEnv EXCEPT !.FORECAST_SECONDS = h, !.FALLBACK_WINDOW_POINTS = k] :
        h \in {60, 2, 0}, k \in {5, 2, 1, 0} }

InitExtrapolation == \E e \in ExtrapolationEnvs : InitWith(e)

\* The histories of the forecaster, and histories whose samples carry the
\* same timestamp or arrived newest first
ExtrapolationHistories ==
    Histories \cup
    { <<TimePoint(Seconds(1), I(10)), TimePoint(Seconds(1), I(40))>>,
      <<TimePoint(Seconds(2), I(40)), TimePoint(0, I(10))>>,
      <<TimePoint(0, I(0)), TimePoint(Seconds(2), I(10)),
        TimePoint(Seconds(2), I(40))>>,
      <<TimePoint(0, I(40)), TimePoint(Seconds(4), I(10)),
        TimePoint(Seconds(2), I(0))>> }

\* fallback_forecast(points, self._horizon_seconds), as Forecaster.forecast
\* calls it
CallFallbackForecast ==
    /\ \E pts \in ExtrapolationHistories :
        fn' = Some([op |-> "fallback_forecast", points |-> pts,
                    horizon_seconds |-> _horizon_seconds,
                    result |-> fallback_forecast(pts, _horizon_seconds)])
    /\ UNCHANGED <<env, clock, points, state, metrics, pc, req, loc, out, started>>

NextExtrapolation == CallFallbackForecast

SpecExtrapolation == InitExtrapolation /\ [][NextExtrapolation]_vars

---------------------------------------------------------------------------
(* One client under constant overload, applying every answer it gets *)

\* Reports of one client in one run
MaxLoopRequests == 6

\* The limiter the client starts with: well above the floor, next to it
\* (inside the dead band), on a 60 s window, below the floor, and with a
\* fractional limit
LoopConfigs ==
    { FixedConfig(I(10), 1), FixedConfig(I(1), 2), SlidingConfig(I(120), 60),
      SlidingConfig(I(66), 60), FixedConfig(R(21, 20), 1) }

\* The answer, written by the client into its limiter and reported back
AppliedConfig(r) ==
    RawConfig(Some(r.algorithm), r.limit, r.window, r.capacity, r.fillRate)

\* limit_config starts on worker p for the body, at wall-clock time at
ReceiveAt(p, body, at) ==
    LET request == LimitConfigRequest(Some(body))
        parsed == parse_timestamp(request.timestamp, at)
    IN  /\ LimitConfigRequest_ok(Some(body))
        /\ ~parsed.raised
        /\ clock' = at
        /\ req' = [req EXCEPT ![p] = Some(body)]
        /\ loc' = [loc EXCEPT ![p] =
                    [Loc0 EXCEPT !.received_at = Some(at),
                                 !.sample_ts = Some(parsed.ts),
                                 !.request = Some(request)]]
        /\ started' = started + 1

\* The client's first report: its limiter rejects a fifth of the traffic.
ClientStarts(p) ==
    /\ started = 0
    /\ pc[p] = "idle"
    /\ \E cfg \in LoopConfigs :
            ReceiveAt(p, Decision(Absent, I(10), Rejecting, cfg), clock)
    /\ pc' = [pc EXCEPT ![p] = "add_point"]
    /\ UNCHANGED <<env, points, state, metrics, out, fn>>

\* The reply of worker q reaches the client, which applies it and reports
\* again MIN_CHANGE_INTERVAL_SECONDS later, still overloaded, to worker p.
ClientApplies(q, p) ==
    /\ started < MaxLoopRequests
    /\ pc[q] = "done"
    /\ out[q].status = 200 /\ IsSome(out[q].body)
    /\ ReceiveAt(p, Decision(Absent, I(10), Rejecting,
                             AppliedConfig(Get(out[q].body))),
                 clock + Seconds(MIN_CHANGE_INTERVAL_SECONDS))
    /\ pc' = [[pc EXCEPT ![q] = "idle"] EXCEPT ![p] = "add_point"]
    /\ out' = [out EXCEPT ![q] = Out0]
    /\ UNCHANGED <<env, points, state, metrics, fn>>

NextLoop ==
    \/ \E p \in Procs : ClientStarts(p)
    \/ \E q, p \in Procs : ClientApplies(q, p)
    \/ \E p \in Procs :
            \/ AddPoint(p)
            \/ SnapshotAndForecast(p)
            \/ PublishPredicted(p)
            \/ Policy(p)
            \/ UpdateMetrics(p)

SpecLoop == InitDefault /\ [][NextLoop]_vars

---------------------------------------------------------------------------
(* Properties *)

\* The parsed request of worker p, and whether its currentConfig validates
RequestOf(p) == Get(loc[p].request)
HasRequest(p) == IsSome(loc[p].request)
ConfigValid(p) == IsNone(validate_current_config(RequestOf(p).currentConfig))

\* Worker p has its reply ready or sent
Replied(p) == pc[p] \in {"metrics", "exc_metrics", "done"}

\* C1: every 200 response of POST /v1/limit-config, on the ok, invalid_config
\* and validation_error branches, read back as an IncomingConfig passes
\* validate_current_config.
C1_ResponseValidates ==
    \A p \in Procs :
        (out[p].status = 200 /\ IsSome(out[p].body)) =>
            IsNone(validate_current_config(AsIncomingConfig(Get(out[p].body))))

\* Worker p takes the accepting return of recommend_config in this step
Accepts(p) == pc[p] = "policy" /\ pc'[p] = "metrics" /\ loc'[p].branch = "accepted"

\* |target - currentLimit| / currentLimit of the request worker p holds
RelativeChange(p) ==
    LET request == RequestOf(p)
        current == current_rps_limit(request.currentConfig)
        target == target_rps(request, clamp(Get(loc[p].predicted), I(0), max_rps))
    IN  RDiv(RAbs(RSub(target, current)), current)

\* C2: lastChangeAt is written only by accepted changes, each with the now of
\* its request; an accepted change comes at least MinChangeIntervalSeconds
\* after the one before it (hence after every earlier one); and an accepted
\* change that keeps the algorithm has a relative change of at least
\* MinRelativeChange.
C2_AcceptedChangesApart ==
    [][ /\ state'.last_change_at # state.last_change_at =>
                \E p \in Procs :
                    Accepts(p) /\ state'.last_change_at = loc[p].received_at
        /\ \A p \in Procs : Accepts(p) =>
            /\ state'.last_change_at = loc[p].received_at
            /\ IsSome(state.last_change_at) =>
                    Get(loc[p].received_at) - Get(state.last_change_at)
                        >= MIN_CHANGE_INTERVAL_SECONDS * MicrosPerSecond
            /\ Get(loc'[p].recommendation).algorithm
                    = RequestOf(p).currentConfig.algorithm
                => RGe(RelativeChange(p), MIN_RELATIVE_CHANGE)
      ]_vars

\* Two accepted changes, the second one keeping the algorithm and with a now
\* later than the first one's
C2_Witness ==
    \E p, q \in Procs :
        /\ p # q
        /\ Replied(p) /\ loc[p].branch = "accepted"
        /\ Replied(q) /\ loc[q].branch = "accepted"
        /\ Get(loc[q].received_at) > Get(loc[p].received_at)
        /\ state.last_change_at = loc[q].received_at
        /\ Get(loc[q].recommendation).algorithm
                = RequestOf(q).currentConfig.algorithm

\* C3: on the ok path, a change suppressed by hysteresis (too small, or too
\* soon after the last change) is answered with the request's currentConfig
\* under configs_equal, and leaves lastChangeAt and lastAlgoSwitchAt alone.
C3_SuppressedEchoesCurrent ==
    /\ [] \A p \in Procs :
            (Replied(p) /\ loc[p].result = "ok"
                        /\ loc[p].branch \in {"ratio", "recent"})
                => configs_equal(RequestOf(p).currentConfig,
                                 Get(loc[p].recommendation))
    /\ [][ \A p \in Procs :
            (pc[p] = "policy" /\ loc'[p].branch \in {"ratio", "recent"}) =>
                /\ state'.last_change_at = state.last_change_at
                /\ state'.last_algo_switch_at = state.last_algo_switch_at ]_vars

\* C4: for a currentConfig that validates and whose current limit lies within
\* [MinRps, MaxRps], build_response(algorithm, currentLimit, currentConfig, p)
\* is configs_equal to currentConfig.
C4_BuildEchoesCurrent ==
    (IsSome(fn) /\ Get(fn).op = "build_response") =>
        configs_equal(Get(fn).config, Get(fn).result)

StrictlyIncreasing(pts) ==
    \A i \in 1..(Len(pts) - 1) : pts[i].ts < pts[i + 1].ts

\* C5: after any sequence of add_point calls the buffer's timestamps are
\* strictly increasing from head to tail, and a sample whose timestamp is at
\* or before the tail's is stored one microsecond after the tail.
C5_StrictlyMonotone ==
    /\ [] StrictlyIncreasing(points)
    /\ [][ (/\ started' = started + 1
            /\ points # <<>>
            /\ Get(fn').ts <= Last(points).ts)
                => Last(points').ts = Last(points).ts + 1 ]_vars

\* The last call's sample was stored later than its own timestamp
C5_Witness ==
    /\ IsSome(fn) /\ Get(fn).op = "add_point"
    /\ Len(points) >= 2
    /\ Get(fn).ts < Last(points).ts
    /\ Last(points).ts = points[Len(points) - 1].ts + 1

\* C6, as claimed: the buffer never holds more than MaxHistoryPoints samples,
\* whatever MaxHistoryPoints is configured to.
C6_LengthWithinConfigured == Len(points) <= MAX_HISTORY_POINTS

\* C6, amended: the buffer never holds more than max(2, MaxHistoryPoints)
\* samples.
C6_LengthWithinEffective == Len(points) <= IMax(2, MAX_HISTORY_POINTS)

\* More appends than the cap, all inside the window: the head was dropped for
\* the count
C6_Witness ==
    /\ started > IMax(2, MAX_HISTORY_POINTS)
    /\ Len(points) = IMax(2, MAX_HISTORY_POINTS)
    /\ HISTORY_WINDOW_SECONDS = 2
    /\ Last(points).ts <= 2 * MicrosPerSecond

Span(pts) == IF pts = <<>> THEN 0 ELSE Last(pts).ts - pts[1].ts

\* C7, as claimed: tail.ts - head.ts never exceeds HistoryWindowSeconds,
\* whatever HistoryWindowSeconds is configured to.
C7_SpanWithinConfigured == Span(points) <= HISTORY_WINDOW_SECONDS * MicrosPerSecond

\* C7, amended: tail.ts - head.ts never exceeds max(1, HistoryWindowSeconds)
\* seconds.
C7_SpanWithinEffective ==
    Span(points) <= IMax(1, HISTORY_WINDOW_SECONDS) * MicrosPerSecond

\* Fewer samples kept than the cap allows and than were appended: the head
\* was dropped for its age
C7_Witness ==
    /\ points # <<>>
    /\ Len(points) < started
    /\ Len(points) < IMax(2, MAX_HISTORY_POINTS)
    /\ started <= IMax(2, MAX_HISTORY_POINTS)

\* C8: every POST /v1/limit-config ends in status 200 with a recommendation,
\* on the ok, invalid-config and malformed-body branches; a validation failure
\* on another path ends in 422.
C8_AlwaysOk ==
    \A p \in Procs :
        /\ pc[p] = "done" => out[p].status = 200 /\ IsSome(out[p].body)
        /\ pc[p] = "done_elsewhere" => out[p].status = 422

\* The response keep_current_response builds from config c and forecast f
KeptCurrent(c, f) ==
    [ algorithm |-> c.algorithm,
      limit |-> IF IsSome(c.limit) THEN Some(I(Floor(Get(c.limit)))) ELSE NONE,
      window |-> c.window,
      capacity |-> c.capacity,
      fillRate |-> c.fillRate,
      predictedRps |-> f,
      validFor |-> Some(FORECAST_SECONDS) ]

\* C9: a request that parses and whose currentConfig fails validation is
\* answered 200 with the keep-current response of lastGoodConfig as read under
\* the state lock, or of default_fallback_config() when none is set, carrying
\* the request's own forecast and counted as invalid_config.
C9_InvalidConfigKeepsLastGood ==
    /\ [] \A p \in Procs :
            (pc[p] = "done" /\ HasRequest(p) /\ ~ConfigValid(p)) =>
                /\ out[p].status = 200
                /\ out[p].result = "invalid_config"
                /\ out[p].body = Some(KeptCurrent(Get(loc[p].fallback_config),
                                                  loc[p].predicted_rps))
    /\ [][ \A p \in Procs :
            (pc[p] = "invalid_config" /\ pc'[p] # "invalid_config") =>
                /\ loc'[p].fallback_config =
                        IF IsSome(state.last_good_config)
                        THEN state.last_good_config
                        ELSE Some(default_fallback_config)
                /\ loc'[p].predicted_rps = loc[p].predicted_rps ]_vars
    /\ [][ \A p \in Procs :
            (pc[p] = "metrics" /\ pc'[p] = "done" /\ loc[p].result = "invalid_config")
                => metrics'.requests_total.invalid_config
                        = metrics.requests_total.invalid_config + 1 ]_vars

\* An invalid-config reply built from a stored lastGoodConfig, while
\* lastPredictedRps holds another request's forecast
C9_Witness ==
    \E p \in Procs :
        /\ pc[p] = "done" /\ HasRequest(p) /\ ~ConfigValid(p)
        /\ out[p].status = 200
        /\ IsSome(state.last_good_config)
        /\ loc[p].fallback_config = state.last_good_config
        /\ state.last_predicted_rps # Get(out[p].body).predictedRps

\* The body carries no currentConfig object
NoUsableConfig(payload) ==
    IsNone(payload) \/ IsNone(Get(payload).currentConfig)

\* C10: once an ok-path request has stored a recommendation, a malformed body
\* without a usable currentConfig is answered 200 with that recommendation
\* replayed.
C10_GarbageReplaysLast ==
    \A p \in Procs :
        (/\ pc[p] = "done"
         /\ loc[p].result = "validation_error"
         /\ NoUsableConfig(loc[p].payload)
         /\ IsSome(loc[p].fallback_recommendation))
            => /\ out[p].status = 200
               /\ out[p].body = loc[p].fallback_recommendation

\* Worker p runs the malformed-body handler and has chosen its reply
ChoseReply(p) ==
    pc[p] \in {"exc_metrics", "done"} /\ loc[p].result = "validation_error"

\* The reply the order of preference gives for a body, the state fields the
\* handler read and the config coerce_current_config returned
PreferredReply(coerced, fallback_recommendation, last_predicted_rps) ==
    IF IsSome(coerced)
        THEN keep_current_response(Get(coerced), last_predicted_rps)
    ELSE IF IsSome(fallback_recommendation)
        THEN Get(fallback_recommendation)
    ELSE keep_current_response(default_fallback_config, last_predicted_rps)

\* C11: the malformed-body branch replies with (1) the keep-current response of
\* the coerced currentConfig when coerce_current_config produces one, (2)
\* otherwise the replayed lastGoodRecommendation when it exists, (3) otherwise
\* the keep-current response of default_fallback_config(); each reply is
\* counted as validation_error; and outcome (2) can be reached: a handler that
\* has read a stored lastGoodRecommendation, the only state from which (2) can
\* be chosen, replays it for some body.
C11_ThreeOutcomes ==
    \A p \in Procs :
        /\ ChoseReply(p) =>
                loc[p].recommendation =
                    Some(PreferredReply(
                            coerce_current_config(loc[p].payload,
                                                  loc[p].fallback_config),
                            loc[p].fallback_recommendation,
                            loc[p].last_predicted_rps))
        /\ (pc[p] = "done" /\ loc[p].result = "validation_error") =>
                out[p].result = "validation_error" /\ out[p].status = 200
        /\ (pc[p] = "exc_respond" /\ IsSome(loc[p].fallback_recommendation)) =>
                \E payload \in MalformedBodies :
                    IsNone(coerce_current_config(payload, loc[p].fallback_config))

\* The replay branch of the handler is never taken
ReplayNeverTaken == \A p \in Procs : loc[p].branch # "replay"

\* Worker p takes the ok-path step that holds the state lock
OkPathStores(p) ==
    /\ pc[p] = "policy" /\ pc'[p] = "metrics"
    /\ ConfigValid(p)
    /\ state'.last_good_config = Some(RequestOf(p).currentConfig)
    /\ state'.last_good_recommendation = loc'[p].recommendation
    /\ loc'[p].result = "ok"

\* C12: lastGoodConfig and lastGoodRecommendation change only in the ok-path
\* step that ran recommend_config for a currentConfig that passed validation,
\* which stores that currentConfig and the recommendation returned; steps of
\* invalid-config and malformed-body requests leave both alone; and a stored
\* lastGoodConfig always passes validate_current_config.
C12_LastGoodOnlyFromOkPath ==
    /\ [] (IsSome(state.last_good_config) =>
                IsNone(validate_current_config(Get(state.last_good_config))))
    /\ [][ (\/ state'.last_good_config # state.last_good_config
            \/ state'.last_good_recommendation # state.last_good_recommendation)
                => \E p \in Procs : OkPathStores(p) ]_vars
    /\ [][ \A p \in Procs :
            (pc[p] \in {"invalid_config", "exc_state", "exc_respond", "exc_metrics"}
             /\ pc'[p] # pc[p])
                => /\ state'.last_good_config = state.last_good_config
                   /\ state'.last_good_recommendation
                        = state.last_good_recommendation ]_vars

\* A malformed body carrying a currentConfig of its own, or an invalid-config
\* request, was answered after an ok request with something else than the
\* stored recommendation, and the stored pair is still the ok request's
C12_Witness ==
    /\ IsSome(state.last_good_config)
    /\ IsSome(state.last_good_recommendation)
    /\ \E p \in Procs :
        /\ pc[p] = "done"
        /\ \/ /\ loc[p].result = "validation_error"
              /\ IsSome(loc[p].payload)
              /\ IsSome(Get(loc[p].payload).currentConfig)
              /\ loc[p].fallback_config = state.last_good_config
           \/ /\ loc[p].result = "invalid_config"
              /\ loc[p].fallback_config = state.last_good_config
        /\ Get(loc[p].recommendation).limit # Get(state.last_good_recommendation).limit

\* C13: once set, lastChangeAt is never cleared and never decreases, in any
\* interleaving of requests, also when a request received earlier takes the
\* state lock after a request received later has set lastChangeAt.
C13_LastChangeAtMonotone ==
    [][ IsSome(state.last_change_at) =>
            /\ IsSome(state'.last_change_at)
            /\ Get(state'.last_change_at) >= Get(state.last_change_at) ]_vars

\* The request received earlier ran the policy after the one received later
\* had set lastChangeAt, and its change was held back
C13_Witness ==
    \E p, q \in Procs :
        /\ Replied(q) /\ loc[q].branch = "accepted"
        /\ Replied(p) /\ loc[p].branch = "recent"
        /\ Get(loc[p].received_at) < Get(loc[q].received_at)
        /\ state.last_change_at = loc[q].received_at

\* Worker p's accepted recommendation changes the algorithm
Switches(p) ==
    /\ Accepts(p)
    /\ Get(loc'[p].recommendation).algorithm # RequestOf(p).currentConfig.algorithm

\* C14: lastAlgoSwitchAt is written only by a request whose accepted
\* recommendation has another algorithm than its currentConfig, with that
\* request's now; and each value written is at least
\* MinAlgoSwitchIntervalSeconds after the value it replaces, in any
\* interleaving of requests.
C14_SwitchesApart ==
    [][ /\ state'.last_algo_switch_at # state.last_algo_switch_at =>
                \E p \in Procs :
                    Switches(p) /\ state'.last_algo_switch_at = loc[p].received_at
        /\ \A p \in Procs : Switches(p) =>
            /\ state'.last_algo_switch_at = loc[p].received_at
            /\ IsSome(state.last_algo_switch_at) =>
                    Get(loc[p].received_at) - Get(state.last_algo_switch_at)
                        >= MIN_ALGO_SWITCH_INTERVAL_SECONDS * MicrosPerSecond
        /\ \A p \in Procs : (Accepts(p) /\ ~Switches(p)) =>
                state'.last_algo_switch_at = state.last_algo_switch_at
      ]_vars

\* Two switches, the second one a switch interval after the first
C14_Witness ==
    \E p, q \in Procs :
        /\ Replied(p) /\ loc[p].branch = "accepted"
        /\ Get(loc[p].recommendation).algorithm # RequestOf(p).currentConfig.algorithm
        /\ Replied(q) /\ loc[q].branch = "accepted"
        /\ Get(loc[q].recommendation).algorithm # RequestOf(q).currentConfig.algorithm
        /\ Get(loc[q].received_at) > Get(loc[p].received_at)
        /\ state.last_algo_switch_at = loc[q].received_at

\* Worker p takes the policy step for a fixed or sliding currentConfig that
\* reports overload or whose forecast is a spike, with no change accepted
\* within the last MinChangeIntervalSeconds
DecreaseDue(p) ==
    LET request == RequestOf(p)
        current == current_rps_limit(request.currentConfig)
        predicted == clamp(Get(loc[p].predicted), I(0), max_rps)
        signalled ==
            \/ IsSome(request.rejectedRate)
                /\ RGe(Get(request.rejectedRate), REJECTED_RATE_THRESHOLD)
            \/ IsSome(request.latencyP95)
                /\ RGe(Get(request.latencyP95), LATENCY_P95_THRESHOLD)
            \/ IsSome(request.errors5xx)
                /\ Get(request.errors5xx) >= ERRORS_5XX_THRESHOLD
    IN  /\ pc[p] = "policy" /\ pc'[p] = "metrics"
        /\ request.currentConfig.algorithm \in {"fixed", "sliding"}
        /\ signalled \/ RGe(predicted, RMul(current, DDOS_MULTIPLIER))
        /\ \/ IsNone(state.last_change_at)
           \/ Get(loc[p].received_at) - Get(state.last_change_at)
                >= MIN_CHANGE_INTERVAL_SECONDS * MicrosPerSecond

\* ceil((L / W) * DecreaseFactor * W) clamped to
\* [ceil(MinRps * W), floor(MaxRps * W)]
DecreasedLimit(config) ==
    LET W == Get(config.window)
        raw == Ceil(RMul(RMul(RDiv(Get(config.limit), W), DECREASE_FACTOR), W))
        low == IMax(raw, Ceil(RMul(MIN_RPS, W)))
    IN  IF IsSome(max_rps) THEN IMin(low, Floor(RMul(Get(max_rps), W))) ELSE low

\* The decrease is a change the hysteresis lets through: the decreased limit
\* is not the current one, and the clamped target is at least
\* MinRelativeChange away from currentLimit
DecreaseIsChange(config) ==
    LET current == RDiv(Get(config.limit), Get(config.window))
        target == clamp(RMul(current, DECREASE_FACTOR), MIN_RPS, max_rps)
    IN  /\ I(DecreasedLimit(config)) # I(Trunc(Get(config.limit)))
        /\ RGe(RDiv(RAbs(RSub(target, current)), current), MIN_RELATIVE_CHANGE)

InDeadBand(p) ==
    LET request == RequestOf(p)
        config == request.currentConfig
        current == RDiv(Get(config.limit), Get(config.window))
        predicted == Get(loc[p].predicted)
    IN  /\ pc[p] = "policy" /\ pc'[p] = "metrics"
        /\ config.algorithm = "fixed"
        /\ RGe(current, MIN_RPS)
        /\ IsSome(max_rps) => RLe(current, Get(max_rps))
        /\ IsNone(request.rejectedRate)
        /\ IsNone(request.latencyP95)
        /\ IsNone(request.errors5xx)
        /\ RGe(predicted, RMul(current, RSub(I(1), DECREASE_THRESHOLD)))
        /\ RLe(predicted, RMul(current, RAdd(I(1), INCREASE_THRESHOLD)))

\* C16: an ok-path request that reports no overload signal, carries a fixed
\* currentConfig with currentLimit in [MinRps, MaxRps] and whose forecast is
\* inside the dead band is answered with its currentConfig under configs_equal
\* and does not set lastChangeAt; so over any sequence of such requests every
\* response equals the input and lastChangeAt is never set.
C16_DeadBandEchoes ==
    [][ \A p \in Procs : InDeadBand(p) =>
            /\ configs_equal(RequestOf(p).currentConfig,
                             Get(loc'[p].recommendation))
            /\ state'.last_change_at = state.last_change_at ]_vars

\* The first request of the round trip reported overload, or its forecast was
\* a spike
FirstDecreased(call) ==
    \/ overload(call.request)
    \/ RGe(call.predicted,
           RMul(current_rps_limit(call.request.currentConfig), DDOS_MULTIPLIER))

C18_ValidForAndForecast ==
    \A p \in Procs :
        (out[p].status = 200 /\ IsSome(out[p].body)) =>
            /\ out[p].result \in {"ok", "invalid_config", "validation_error"}
            /\ Get(out[p].body).validFor = Some(FORECAST_SECONDS)
            /\ IsSome(Get(out[p].body).predictedRps) =>
                    RGe(Get(Get(out[p].body).predictedRps), I(0))

\* One request is answered on the ok branch; the next, with an unusable
\* currentConfig, is answered on the invalid_config branch with the forecast
\* that the negative prediction of a falling load left at 0
C18_Witness ==
    \E p, q \in Procs :
        /\ out[p].status = 200 /\ IsSome(out[p].body)
        /\ out[p].result = "ok"
        /\ Get(out[p].body).validFor = Some(FORECAST_SECONDS)
        /\ out[q].status = 200 /\ IsSome(out[q].body)
        /\ out[q].result = "invalid_config"
        /\ Len(loc[q].history) = 2
        /\ Get(out[q].body).predictedRps = Some(I(0))
        /\ Get(out[q].body).validFor = Some(FORECAST_SECONDS)

\* C19: parse_timestamp never raises: for every timestamp value the schema
\* admits, a value that cannot be converted yields the server wall clock, so
\* the request reaches the decision path instead of failing with an internal
\* error.
C19_ParseTimestampTotal ==
    \A p \in Procs :
        (IsSome(loc[p].request) /\ IsSome(loc[p].received_at)) =>
            LET value == Get(loc[p].request).timestamp
                parsed == parse_timestamp(value, Get(loc[p].received_at))
            IN  /\ ~parsed.raised
                /\ out[p].status # 500
                /\ value.kind \notin {"num", "iso", "numstr"} =>
                        loc[p].sample_ts = loc[p].received_at

\* An unconvertible numeric string is replaced by the wall clock and the
\* request is answered
C19_Witness ==
    \E p \in Procs :
        /\ IsSome(loc[p].request)
        /\ Get(loc[p].request).timestamp.kind = "numstr_year"
        /\ clock > 0
        /\ loc[p].sample_ts = Some(clock)
        /\ out[p].status = 200

\* C20: default_fallback_config() returns a fixed config that passes
\* validate_current_config (limit >= 1, window >= 1) for every value of
\* MinRps, MaxRps (including MaxRps <= 0 and MaxRps < 1/window) and
\* DefaultWindowSeconds; with the defaults it is {fixed, limit=60, window=60}.
C20_DefaultFallbackValid ==
    (IsSome(fn) /\ Get(fn).op = "default_fallback_config") =>
        LET config == Get(fn).config IN
            /\ config.algorithm = "fixed"
            /\ LimitConfigIn_ok([algorithm |-> Some(config.algorithm),
                                 limit |-> config.limit,
                                 window |-> config.window,
                                 capacity |-> config.capacity,
                                 fillRate |-> config.fillRate])
            /\ IsNone(validate_current_config(config))
            /\ IsSome(config.limit) /\ RGe(Get(config.limit), I(1))
            /\ IsSome(config.window) /\ RGe(Get(config.window), I(1))
            /\ env = DefaultEnv =>
                    /\ config.limit = Some(I(60))
                    /\ config.window = Some(I(60))

\* MAX_RPS is positive but below 1/window, and the window was widened until
\* one request fits
C20_Witness ==
    /\ IsSome(fn) /\ Get(fn).op = "default_fallback_config"
    /\ RGt(MAX_RPS, I(0))
    /\ RLt(RMul(MAX_RPS, I(IMax(1, DEFAULT_WINDOW_SECONDS))), I(1))
    /\ RGt(Get(Get(fn).config.window), I(IMax(1, DEFAULT_WINDOW_SECONDS)))
    /\ Get(fn).config.limit = Some(I(1))

\* C21: for each ok-path request, the hysteresis read of lastChangeAt and
\* lastAlgoSwitchAt, their update, and the assignment of
\* lastGoodRecommendation and lastGoodConfig happen in one critical section of
\* the state lock, so no other request's state write interleaves with them:
\* while a request is in the section only its own steps change the engine
\* state, and what it leaves behind is its own recommendation, its own
\* currentConfig and, for an accepted change, its own receive time.  The
\* forecast of every request is computed while the state lock is not held.
C21_PolicySectionAtomic ==
    [][ \A p \in Procs :
            /\ HoldsStateLock(p) =>
                    /\ state' # state => pc'[p] # pc[p]
                    /\ \A q \in Procs \ {p} : ~HoldsStateLock(q)'
            /\ (pc[p] = "policy_store_config" /\ pc'[p] = "metrics") =>
                    /\ state'.last_good_recommendation = loc[p].recommendation
                    /\ state'.last_good_config =
                            Some(Get(loc[p].request).currentConfig)
                    /\ loc[p].branch = "accepted" =>
                            state'.last_change_at = loc[p].received_at
            /\ (pc[p] = "snapshot" /\ pc'[p] = "publish") =>
                    /\ ~HoldsStateLock(p) /\ ~HoldsStateLock(p)'
                    /\ state' = state
      ]_vars

\* One request is inside the critical section after an accepted change, with
\* its recommendation stored and its currentConfig not yet, while another has
\* its forecast and waits for the lock
C21_Witness ==
    \E p, q \in Procs :
        /\ pc[q] = "policy_store_config"
        /\ loc[q].branch = "accepted"
        /\ state.last_good_recommendation = loc[q].recommendation
        /\ state.last_good_config # Some(Get(loc[q].request).currentConfig)
        /\ pc[p] \in {"publish", "policy"}
        /\ IsSome(loc[p].predicted)

\* seq without its last element
Front(seq) == SubSeq(seq, 1, Len(seq) - 1)

\* short is what is left of long after dropping elements from its head
IsSuffix(short, long) ==
    /\ Len(short) <= Len(long)
    /\ short = SubSeq(long, Len(long) - Len(short) + 1, Len(long))

\* C22: for concurrent requests A and B, the relative order of their samples
\* in the buffer is the order in which their add_point calls acquired the
\* buffer lock, not the order of their timestamps: every add_point puts the
\* caller's sample behind all samples already held, whatever its timestamp,
\* and the buffer stays strictly timestamp-monotone after the append.
C22_OrderOfAppends ==
    [][ \A p \in Procs :
            (pc[p] = "add_point" /\ pc'[p] = "snapshot") =>
                /\ points' # <<>>
                /\ Last(points').rps = Get(loc[p].request).observedRps
                /\ Last(points').ts =
                        IF points # <<>>
                            /\ Get(loc[p].sample_ts) <= Last(points).ts
                        THEN Last(points).ts + 1
                        ELSE Get(loc[p].sample_ts)
                /\ IsSuffix(Front(points'), points)
                /\ StrictlyIncreasing(points')
      ]_vars

\* B, stamped later, appended first: A's sample stands behind B's, one
\* microsecond after it, although A's timestamp is the smaller one
C22_Witness ==
    \E p, q \in Procs :
        /\ IsSome(loc[p].sample_ts) /\ IsSome(loc[q].sample_ts)
        /\ Get(loc[p].sample_ts) < Get(loc[q].sample_ts)
        /\ pc[p] # "add_point" /\ pc[q] # "add_point"
        /\ Len(points) = 2
        /\ points[1].ts = Get(loc[q].sample_ts)
        /\ points[2].ts = Get(loc[q].sample_ts) + 1

\* Decision requests answered so far
CompletedDecisions ==
    metrics.requests_total["ok"] + metrics.requests_total["invalid_config"]
        + metrics.requests_total["validation_error"]

\* No request is between being received and being answered
Quiescent == \A p \in Procs : pc[p] \in {"idle", "done", "done_elsewhere"}

\* Exactly one label of the ai_last_algorithm family is 1, the others are 0
OneAlgorithmActive ==
    \E a \in ALLOWED_ALGORITHMS :
        /\ metrics.last_algorithm[a] = Some(1)
        /\ \A b \in ALLOWED_ALGORITHMS \ {a} : metrics.last_algorithm[b] = Some(0)

C24_CountedOnce ==
    [][ /\ \A p \in Procs :
            (pc[p] \notin {"done", "done_elsewhere"} /\ pc'[p] = "done") =>
                /\ out'[p].result \in {"ok", "invalid_config", "validation_error"}
                /\ metrics'.requests_total =
                        [metrics.requests_total EXCEPT ![out'[p].result] = @ + 1]
        /\ metrics'.requests_total # metrics.requests_total =>
                \E p \in Procs : pc[p] # "done" /\ pc'[p] = "done"
      ]_vars

\* Two requests answered on different branches, each counted once under its
\* own label
C24_Witness ==
    /\ \E p, q \in Procs :
        /\ pc[p] = "done" /\ out[p].result = "invalid_config"
        /\ pc[q] = "done" /\ out[q].result = "validation_error"
    /\ metrics.requests_total =
            [ok |-> 0, invalid_config |-> 1, validation_error |-> 1]

\* The model path is taken for the history and the fit or the prediction raises
ModelPathFails(call) ==
    /\ PROPHET_AVAILABLE
    /\ Len(call.points) >= _min_points
    /\ call.prophet.raised

\* C25: a failure inside the preferred model path never propagates to the
\* caller: forecast falls through to the linear-extrapolation fallback, and for
\* every non-empty input forecast returns a number >= 0 (none only for empty
\* input).
C25_ForecastTotal ==
    (IsSome(fn) /\ Get(fn).op = "forecast") =>
        LET call == Get(fn) IN
            /\ IsNone(call.result) <=> call.points = <<>>
            /\ IsSome(call.result) => RGe(Get(call.result), I(0))
            /\ (call.points # <<>> /\ ModelPathFails(call)) =>
                    call.result =
                        Some(fallback_forecast(call.points, _horizon_seconds))

\* The model raised on a falling load: the answer is the extrapolation, which
\* is negative and held at 0
C25_Witness ==
    /\ IsSome(fn) /\ Get(fn).op = "forecast"
    /\ ModelPathFails(Get(fn))
    /\ Len(Get(fn).points) = 2
    /\ Get(fn).points[1].rps = I(40) /\ Get(fn).points[2].rps = I(10)
    /\ Get(fn).result = Some(I(0))

OverloadAnswered(p) ==
    /\ pc[p] \in {"metrics", "done"}
    /\ loc[p].result = "ok"
    /\ IsSome(loc[p].recommendation)
    /\ overload(Get(loc[p].request))

\* C27: on the ok path, a request that reports an overload signal is never
\* answered with a recommendation whose RPS (limit/window, or fillRate) is
\* higher than the request's current RPS limit, for every valid currentConfig
\* including one whose current limit is below MinRps.
C27_OverloadNeverRaises ==
    \A p \in Procs :
        OverloadAnswered(p) =>
            LET rps == recommendation_rps(Get(loc[p].recommendation))
            IN  IsSome(rps) =>
                    RLe(Get(rps),
                        current_rps_limit(Get(loc[p].request).currentConfig))

\* An overloaded limiter at 10 rps is answered with a lower limit
C27_Witness ==
    \E p \in Procs :
        /\ OverloadAnswered(p)
        /\ loc[p].branch = "accepted"
        /\ Get(loc[p].request).currentConfig.limit = Some(I(10))
        /\ Get(loc[p].recommendation).limit = Some(I(7))

\* The target RPS as the four rules and the clamp give it
FirstMatchingRule(request, predicted) ==
    LET currentLimit == current_rps_limit(request.currentConfig)
        signalled ==
            \/ IsSome(request.rejectedRate)
                /\ RGe(Get(request.rejectedRate), REJECTED_RATE_THRESHOLD)
            \/ IsSome(request.latencyP95)
                /\ RGe(Get(request.latencyP95), LATENCY_P95_THRESHOLD)
            \/ IsSome(request.errors5xx)
                /\ Get(request.errors5xx) >= ERRORS_5XX_THRESHOLD
        spike == RGe(predicted, RMul(currentLimit, DDOS_MULTIPLIER))
    IN  CASE signalled \/ spike -> <<1, RMul(currentLimit, DECREASE_FACTOR)>>
          [] ~(signalled \/ spike)
                /\ RGt(predicted,
                       RMul(currentLimit, RAdd(I(1), INCREASE_THRESHOLD))) ->
                <<2, RMul(predicted, RAdd(I(1), INCREASE_HEADROOM))>>
          [] ~(signalled \/ spike)
                /\ RLt(predicted,
                       RMul(currentLimit, RSub(I(1), DECREASE_THRESHOLD))) ->
                <<3, predicted>>
          [] OTHER -> <<4, currentLimit>>

\* C28: the target RPS is chosen by the first matching rule of: (1) overload
\* or spike gives currentLimit x DecreaseFactor; (2) predicted > currentLimit
\* x (1 + IncreaseThreshold) gives predicted x (1 + IncreaseHeadroom); (3)
\* predicted < currentLimit x (1 - DecreaseThreshold) gives predicted; (4)
\* otherwise currentLimit; the result is then clamped to [MinRps, MaxRps].  In
\* particular a forecast at or above currentLimit x DdosMultiplier lowers the
\* target even though it also exceeds the increase threshold.
C28_FirstMatchingRule ==
    (IsSome(fn) /\ Get(fn).op = "target_rps") =>
        LET call == Get(fn)
            rule == FirstMatchingRule(call.request, call.predicted)
            currentLimit == current_rps_limit(call.request.currentConfig)
        IN  /\ call.result = RMax(MIN_RPS, RMin(rule[2], MAX_RPS))
            /\ (/\ RGe(call.predicted, RMul(currentLimit, DDOS_MULTIPLIER))
                /\ RGe(RMul(currentLimit, DECREASE_FACTOR), MIN_RPS)) =>
                    RLt(call.result, currentLimit)

\* A forecast of four times the limit, with no overload signal: the target is
\* lowered to 7 although the forecast exceeds the increase threshold
C28_Witness ==
    /\ IsSome(fn) /\ Get(fn).op = "target_rps"
    /\ ~overload(Get(fn).request)
    /\ current_rps_limit(Get(fn).request.currentConfig) = I(10)
    /\ Get(fn).predicted = I(40)
    /\ Get(fn).result = I(7)

\* The step is one of worker p handling a malformed body
MalformedStep(p) ==
    /\ pc'[p] # pc[p]
    /\ \/ pc[p] \in {"exc_state", "exc_respond", "exc_metrics"}
       \/ pc'[p] = "exc_state"

\* C29: a malformed-body request changes neither the buffer nor any
\* EngineState field (lastChangeAt, lastAlgoSwitchAt, lastGoodConfig,
\* lastGoodRecommendation, lastPredictedRps): it only reads them and updates
\* metrics.
C29_MalformedFrame ==
    [][ \A p \in Procs :
            MalformedStep(p) =>
                /\ points' = points
                /\ state' = state
                /\ metrics' # metrics =>
                        (pc[p] = "exc_metrics" /\ pc'[p] = "done")
                /\ (pc[p] = "exc_state" /\ pc'[p] = "exc_respond") =>
                        /\ loc'[p].fallback_config = state.last_good_config
                        /\ loc'[p].fallback_recommendation =
                                state.last_good_recommendation
                        /\ loc'[p].last_predicted_rps = state.last_predicted_rps
      ]_vars

\* A malformed request carrying an observedRps was answered after an ok-path
\* request had filled the buffer and the state, which are as that request
\* left them
C29_Witness ==
    \E p, q \in Procs :
        /\ pc[p] = "done" /\ out[p].result = "validation_error"
        /\ IsSome(loc[p].observed_rps)
        /\ pc[q] = "done" /\ out[q].result = "ok"
        /\ Len(points) = 1
        /\ state.last_good_config = Some(Get(loc[q].request).currentConfig)
        /\ state.last_good_recommendation = out[q].body
        /\ state.last_predicted_rps = loc[q].predicted_rps
        /\ metrics.requests_total["validation_error"] = 1

\* Worker p is handling a request whose currentConfig does not validate
InvalidRequest(p) ==
    /\ IsSome(loc[p].request)
    /\ IsSome(validate_current_config(Get(loc[p].request).currentConfig))

\* C30: an invalid-config request leaves lastChangeAt, lastAlgoSwitchAt,
\* lastGoodConfig and lastGoodRecommendation unchanged, while it does append
\* its sample to the buffer and overwrite lastPredictedRps, because the append
\* and the forecast run before currentConfig is validated.
C30_InvalidConfigFrame ==
    [][ \A p \in Procs :
            (pc'[p] # pc[p] /\ InvalidRequest(p)') =>
                /\ state'.last_change_at = state.last_change_at
                /\ state'.last_algo_switch_at = state.last_algo_switch_at
                /\ state'.last_good_config = state.last_good_config
                /\ state'.last_good_recommendation = state.last_good_recommendation
                /\ pc[p] = "add_point" =>
                        /\ points' # <<>>
                        /\ Last(points').rps = Get(loc[p].request).observedRps
                        /\ IsSuffix(Front(points'), points)
                /\ pc[p] = "publish" =>
                        /\ pc'[p] = "invalid_config"
                        /\ IsSome(loc[p].predicted_rps)
                        /\ state'.last_predicted_rps = loc[p].predicted_rps
                /\ pc[p] = "invalid_config" => state' = state /\ points' = points
      ]_vars

\* An invalid-config request was answered after an ok-path request: its sample
\* is the newest in the buffer and lastPredictedRps is its forecast, while
\* lastGoodConfig and lastGoodRecommendation are still those of the ok-path
\* request
C30_Witness ==
    \E p, q \in Procs :
        /\ pc[p] = "done" /\ out[p].result = "invalid_config"
        /\ pc[q] = "done" /\ out[q].result = "ok"
        /\ Len(points) = 2
        /\ Last(points).rps = Get(loc[p].request).observedRps
        /\ Get(loc[p].request).observedRps # Get(loc[q].request).observedRps
        /\ state.last_predicted_rps = loc[p].predicted_rps
        /\ loc[p].predicted_rps # loc[q].predicted_rps
        /\ state.last_good_config = Some(Get(loc[q].request).currentConfig)
        /\ state.last_good_recommendation = out[q].body

\* The last call of recommend_config and the response it returned
RecommendCalled == IsSome(fn) /\ Get(fn).op = "recommend_config"
Recommended == Get(fn).result.recommendation

\* The bounds of the limit for the response's window
MinLimit(resp) == Ceil(RMul(MIN_RPS, Get(resp.window)))
MaxLimit(resp) == Floor(RMul(Get(max_rps), Get(resp.window)))

\* C31: every ok-path response recommends an RPS inside [MinRps, MaxRps]: for
\* fixed/sliding ceil(MinRps x window) <= limit <= floor(MaxRps x window), for
\* token MinRps <= fillRate <= MaxRps, whether the recommendation was
\* accepted, found equal to the current config, or rebuilt by hysteresis
\* (MaxRps <= 0 read as no upper bound).
C31_WithinMinMax ==
    RecommendCalled =>
        IF Recommended.algorithm \in {"fixed", "sliding"}
        THEN /\ MinLimit(Recommended) <= Get(Recommended.limit)[1]
             /\ IsSome(max_rps) => Get(Recommended.limit)[1] <= MaxLimit(Recommended)
        ELSE /\ RLe(MIN_RPS, Get(Recommended.fillRate))
             /\ IsSome(max_rps) => RLe(Get(Recommended.fillRate), MAX_RPS)

\* C31, amended: on every return of recommend_config (accepted, equal, or
\* rebuilt by hysteresis) a fixed/sliding limit is <= floor(MaxRps x window)
\* when MaxRps > 0, and >= ceil(MinRps x window) when that floor does not lie
\* below it; a token fillRate is >= MinRps rounded to three decimals, and
\* <= MaxRps rounded to three decimals when MaxRps > 0 and MinRps <= MaxRps.
C31_WithinClampedRounded ==
    RecommendCalled =>
        IF Recommended.algorithm \in {"fixed", "sliding"}
        THEN /\ IsSome(max_rps) => Get(Recommended.limit)[1] <= MaxLimit(Recommended)
             /\ (IsNone(max_rps) \/ MinLimit(Recommended) <= MaxLimit(Recommended))
                    => MinLimit(Recommended) <= Get(Recommended.limit)[1]
        ELSE /\ RLe(Round3(MIN_RPS), Get(Recommended.fillRate))
             /\ (IsSome(max_rps) /\ RLe(MIN_RPS, MAX_RPS))
                    => RLe(Get(Recommended.fillRate), Round3(MAX_RPS))

\* A token limiter below the range is answered, its change suppressed as too
\* recent, with the fill rate MinRps = 1.0004 rounded down to 1.
C31_Witness ==
    /\ RecommendCalled
    /\ Get(fn).result.branch = "recent"
    /\ Get(fn).request.currentConfig.algorithm = "token"
    /\ RLt(current_rps_limit(Get(fn).request.currentConfig), MIN_RPS)
    /\ Recommended.algorithm = "token"
    /\ MIN_RPS = R(10004, 10000)
    /\ Recommended.fillRate = Some(I(1))

\* The algorithm the request of the last call names, aliases of the token
\* bucket read as token
NamedAlgorithm ==
    _normalize_algorithm(Get(Get(Get(fn).body.currentConfig).algorithm))

\* lastAlgoSwitchAt is unset or at least MinAlgoSwitchIntervalSeconds old
SwitchIntervalOver ==
    \/ IsNone(Get(fn).state.last_algo_switch_at)
    \/ Get(fn).now - Get(Get(fn).state.last_algo_switch_at)
            >= Seconds(MIN_ALGO_SWITCH_INTERVAL_SECONDS)

\* max/mean >= BurstinessThreshold over the last BurstinessPoints samples
TailBursty ==
    LET h == Get(fn).history
        n == BURSTINESS_POINTS
        tail == [i \in 1..n |-> h[Len(h) - n + i].rps]
        sum == tail[1][1] * tail[2][2] + tail[2][1] * tail[1][2]
        den == tail[1][2] * tail[2][2]
        top == IF RLt(tail[1], tail[2]) THEN tail[2] ELSE tail[1]
    IN  /\ Len(h) >= n
        /\ n = 2
        /\ sum > 0
        \* top / (sum / (2 den)) >= threshold
        /\ RGe(R(top[1] * 2 * den, top[2] * sum), BURSTINESS_THRESHOLD)

\* C32: on the ok path the response's algorithm differs from the request's
\* currentConfig.algorithm only when AllowAlgoSwitch is enabled and
\* lastAlgoSwitchAt is unset or at least MinAlgoSwitchIntervalSeconds old; the
\* new algorithm is then token when the history tail is bursty, and sliding
\* when it is not bursty and the current algorithm is token; in every other
\* case the response keeps the request's algorithm.
C32_SwitchOnlyWhenAllowed ==
    RecommendCalled =>
        /\ Recommended.algorithm # NamedAlgorithm =>
                /\ ALLOW_ALGO_SWITCH
                /\ SwitchIntervalOver
                /\ TailBursty => Recommended.algorithm = "token"
                /\ ~TailBursty => /\ NamedAlgorithm = "token"
                                  /\ Recommended.algorithm = "sliding"
        /\ ~(ALLOW_ALGO_SWITCH /\ SwitchIntervalOver) =>
                Recommended.algorithm = NamedAlgorithm
        /\ (~TailBursty /\ NamedAlgorithm # "token") =>
                Recommended.algorithm = NamedAlgorithm

\* A fixed limiter whose history ends in a burst is moved to token, the last
\* switch being exactly MinAlgoSwitchIntervalSeconds old.
C32_Witness ==
    /\ RecommendCalled
    /\ ALLOW_ALGO_SWITCH
    /\ Get(fn).state.last_algo_switch_at = Some(0)
    /\ Get(fn).now = Seconds(MIN_ALGO_SWITCH_INTERVAL_SECONDS)
    /\ TailBursty
    /\ NamedAlgorithm = "fixed"
    /\ Recommended.algorithm = "token"
    /\ Get(fn).result.branch = "accepted"

\* Worker p runs the critical section of the ok path in this step and leaves
\* it with a response whose algorithm is not the request's
AnswersOtherAlgorithm(p) ==
    /\ pc[p] = "policy"
    /\ pc'[p] = "metrics"
    /\ Get(loc'[p].recommendation).algorithm
            # RequestOf(p).currentConfig.algorithm

\* C33: whenever an ok-path response has an algorithm different from the
\* request's currentConfig.algorithm, the same critical section has set both
\* lastChangeAt and lastAlgoSwitchAt to that request's now; no response
\* changes the algorithm without recording the switch.
C33_SwitchRecorded ==
    [][\A p \in Procs :
        AnswersOtherAlgorithm(p) =>
            /\ state'.last_change_at = loc[p].received_at
            /\ state'.last_algo_switch_at = loc[p].received_at]_vars

\* A token limiter on steady traffic has just been moved to sliding by a
\* request received after the clock moved, and both instants are its now.
C33_Witness ==
    \E p \in Procs :
        /\ pc[p] = "metrics"
        /\ loc[p].result = "ok"
        /\ RequestOf(p).currentConfig.algorithm = "token"
        /\ Get(loc[p].recommendation).algorithm = "sliding"
        /\ Get(loc[p].received_at) > 0
        /\ state.last_change_at = loc[p].received_at
        /\ state.last_algo_switch_at = loc[p].received_at

\* Worker p has appended its sample and not yet taken its snapshot
AppendedNotSnapshot(p) == pc[p] = "snapshot"

\* Worker p holds the snapshot it took after its append
HoldsSnapshot(p) == pc[p] \in {"publish", "policy", "invalid_config", "metrics"}

\* The stamp add_point gives a sample offered with timestamp ts
StampFor(ts) ==
    IF points # <<>> /\ ts <= Last(points).ts THEN Last(points).ts + 1 ELSE ts

\* This step is an add_point call that leaves its sample, stamped as
\* add_point stamps it, at the tail of a non-empty buffer
AppendKeepsNewest ==
    /\ (\E p \in Procs : pc[p] = "add_point" /\ pc'[p] = "snapshot") =>
            /\ points' # <<>>
            /\ \E p \in Procs :
                    /\ pc[p] = "add_point" /\ pc'[p] = "snapshot"
                    /\ Last(points').ts = StampFor(Get(loc[p].sample_ts))
    /\ (started' = started + 1 /\ pc' = pc) =>
            /\ points' # <<>>
            /\ \E ts \in {0, Seconds(3)} : Last(points').ts = StampFor(ts)

\* C34: the buffer is non-empty after every add_point (trimming by age or by
\* count never removes the newest sample), so the snapshot taken by a request
\* after its own append is never empty, under any interleaving with other
\* appends, and the forecast on the happy path is never none.
C34_SnapshotNeverEmpty ==
    /\ [](\A p \in Procs :
            /\ AppendedNotSnapshot(p) =>
                    /\ snapshot(points) # <<>>
                    /\ \A prophet \in ProphetOutcomes :
                            IsSome(forecast(snapshot(points), prophet))
            /\ HoldsSnapshot(p) => loc[p].history # <<>>)
    /\ [][AppendKeepsNewest]_vars

\* One request and one append of another request have been made; the other
\* sample, stamped two seconds earlier, was trimmed by age when the request
\* appended its own, and the buffer holds that one sample.
C34_Witness ==
    \E p \in Procs :
        /\ AppendedNotSnapshot(p)
        /\ started = 2
        /\ \A q \in Procs \ {p} : pc[q] = "idle"
        /\ points = <<TimePoint(Seconds(2), I(10))>>

\* C35: no request ever holds the buffer lock and the state lock at the same
\* time, and each lock is released on every path, so under fair scheduling
\* every concurrent decision request (ok, invalid-config or malformed)
\* eventually completes: no deadlock is reachable.
C35_LocksDisjointAndLive ==
    /\ [](\A p \in Procs : ~(HoldsBufferLock(p) /\ HoldsStateLock(p)))
    /\ [](\A p, q \in Procs :
            /\ (HoldsBufferLock(p) /\ HoldsBufferLock(q)) => p = q
            /\ (HoldsStateLock(p) /\ HoldsStateLock(q)) => p = q)
    /\ [](\A p \in Procs : pc[p] \in {"idle", "done"} =>
            ~HoldsBufferLock(p) /\ ~HoldsStateLock(p))
    /\ [][\A p \in Procs :
            (pc[p] # "idle" /\ pc'[p] # pc[p]) => ThreadRuns(p)]_vars
    /\ \A p \in Procs : (pc[p] # "idle") ~> (pc[p] = "done")

\* One request is appending its sample under the buffer lock while another is
\* inside the critical section of the ok path.
C35_Witness ==
    \E p, q \in Procs :
        /\ p # q
        /\ HoldsBufferLock(p)
        /\ HoldsStateLock(q)

\* The reply to an overloaded report of the client, and the limiter it reported
LoopAnswered(p) ==
    /\ pc[p] = "done"
    /\ out[p].status = 200 /\ IsSome(out[p].body)
    /\ loc[p].result = "ok"
    /\ overload(Get(loc[p].request))
    /\ Get(loc[p].request).currentConfig.algorithm \in {"fixed", "sliding"}

LoopReported(p) == Get(loc[p].request).currentConfig

\* C36: when every report carries an overload signal, reports are
\* MinChangeIntervalSeconds apart and each answer is applied as the next
\* currentConfig (fixed or sliding), no answer carries a limit above the limit
\* reported, whatever limiter the client started with.
C36_LimitNeverIncreases ==
    \A p \in Procs :
        LoopAnswered(p) =>
            LET answer == Get(out[p].body)
            IN  /\ answer.algorithm = LoopReported(p).algorithm
                /\ answer.window = LoopReported(p).window
                /\ IsSome(answer.limit)
                /\ RLe(Get(answer.limit), Get(LoopReported(p).limit))

\* The loop started at limit 10 has come to rest: the fifth report carries
\* limit 3, is answered with limit 3, and lastChangeAt is the time of the
\* fourth report
C36_Witness ==
    \E p \in Procs :
        /\ LoopAnswered(p)
        /\ started = 5
        /\ LoopReported(p).limit = Some(I(3))
        /\ Get(out[p].body).limit = Some(I(3))
        /\ state.last_change_at =
                Some(Seconds(3 * MIN_CHANGE_INTERVAL_SECONDS))
        /\ clock = Seconds(4 * MIN_CHANGE_INTERVAL_SECONDS)


\* fallback_forecast was called on a non-empty history
Extrapolated == IsSome(fn) /\ Get(fn).op = "fallback_forecast"

\* The last k points of a history, oldest first
Newest(pts, k) == [i \in 1..k |-> pts[Len(pts) - k + i]]

\* The extrapolation over the k newest points, horizon seconds ahead
Extrapolate(pts, k, horizon) ==
    LET w == Newest(pts, k)
        span == w[k].ts - w[1].ts
    IN  IF k = 1 THEN w[1].rps
        ELSE IF span <= 0 THEN w[k].rps
        ELSE RMax(I(0),
                  RAdd(w[k].rps,
                       RMul(RDiv(RSub(w[k].rps, w[1].rps),
                                 R(span, MicrosPerSecond)),
                            I(horizon))))

\* C37 as stated: with k = min(len(points), FallbackWindowPoints) and the
\* horizon ForecastSeconds, fallback_forecast returns the only point's RPS
\* when k = 1, the last RPS when the time span is non-positive, and otherwise
\* max(0, rps_end + slope x ForecastSeconds); the result is never negative.
C37_ExtrapolatesOverForecastSeconds ==
    (Extrapolated /\ Get(fn).points # <<>>) =>
        LET call == Get(fn)
            k == IMin(Len(call.points), FALLBACK_WINDOW_POINTS)
        IN  /\ RGe(call.result, I(0))
            /\ k >= 1 =>
                call.result = Extrapolate(call.points, k, FORECAST_SECONDS)

\* C37, amended: with k = max(1, min(len(points), FallbackWindowPoints)) and
\* the horizon max(1, ForecastSeconds), fallback_forecast returns the only
\* point's RPS when k = 1, the last RPS when the time span of the k newest
\* points is non-positive, and otherwise max(0, rps_end + slope x horizon);
\* the result is never negative.
C37_ExtrapolatesOverHorizon ==
    (Extrapolated /\ Get(fn).points # <<>>) =>
        LET call == Get(fn)
            k == IMax(1, IMin(Len(call.points), FALLBACK_WINDOW_POINTS))
        IN  /\ RGe(call.result, I(0))
            /\ call.result =
                    Extrapolate(call.points, k, IMax(1, FORECAST_SECONDS))

\* With ForecastSeconds 0 and a window of two, the history 0, 10, 40 rps is
\* extrapolated one second ahead from its two newest samples: 40 + 30
C37_Witness ==
    /\ Extrapolated
    /\ FORECAST_SECONDS = 0 /\ FALLBACK_WINDOW_POINTS = 2
    /\ Len(Get(fn).points) = 3
    /\ Get(fn).points[1].rps = I(0)
    /\ Get(fn).points[2].rps = I(10) /\ Get(fn).points[3].rps = I(40)
    /\ Get(fn).points[3].ts - Get(fn).points[2].ts = Seconds(1)
    /\ Get(fn).result = I(70)

====
